---------------------------- MODULE Spec2Model ----------------------------
(***************************************************************************)
(* Model of the template engine of smbsites                                *)
(* (src/generator/template-engine.js, renderTemplate and getNestedValue).  *)
(*                                                                         *)
(* Strings are sequences of one-character strings, so that every regular   *)
(* expression of the engine is modelled character by character.  JavaScript*)
(* values are tagged records; objects keep their entries in insertion      *)
(* order.  One render call is a run of the state machine: the two outer    *)
(* while loops take one step per iteration, every other statement of       *)
(* renderTemplate is one step.                                             *)
(*                                                                         *)
(* The callers of the engine are modelled as well: a caller that renders   *)
(* time after time (calls counts its calls), and the site generator        *)
(* generateWebsite of src/unnamed/part_000, which renders the templates    *)
(* of a site and writes the site's files (disk is the file system, gen the *)
(* generator's call in progress).                                          *)
(*                                                                         *)
(* Further specifications over the same variables model the status tool    *)
(* (StatusSpec, updateCustomerStatus of src/automation/pipeline.js), the   *)
(* development server (ServerSpec, src/unnamed/part_001), the automated    *)
(* pipeline (PipelineSpec, runAutomatedPipeline), the Places search        *)
(* (PlacesSpec, src/automation/google-places.js) and generateSlug          *)
(* (SlugSpec).                                                             *)
(***************************************************************************)
EXTENDS Integers, Sequences, FiniteSets, TLC

VARIABLES template, data, result, pc, loopCount, ifCount, calls, disk, gen

vars == <<template, data, result, pc, loopCount, ifCount, calls, disk, gen>>

(***************************************************************************)
(* Bounds of the model.                                                    *)
(***************************************************************************)
\* Longest sequence bound to a root key in the enumerated documents.
MaxItems == 3
\* Most fragments of a generated (possibly malformed) template.
MaxFrags == 4
\* Most calls of renderTemplate one caller makes.
MaxCalls == 3

(***************************************************************************)
(* Iteration ceilings of the program.                                      *)
(***************************************************************************)
MaxEachScans == 10
MaxIfPasses == 10
MaxNestedPasses == 5
MaxItemIfPasses == 5
\* Width of the context window of the simple-if pass.
ElseWindow == 100

(***************************************************************************)
(* Characters and character classes of the regular expressions.            *)
(***************************************************************************)
DigitChars == <<"0", "1", "2", "3", "4", "5", "6", "7", "8", "9">>

DigitCh == {DigitChars[i] : i \in DOMAIN DigitChars}

LetterCh ==
    {"a", "b", "c", "d", "e", "f", "g", "h", "i", "j", "k", "l", "m",
     "n", "o", "p", "q", "r", "s", "t", "u", "v", "w", "x", "y", "z",
     "A", "B", "C", "D", "E", "F", "G", "H", "I", "J", "K", "L", "M",
     "N", "O", "P", "Q", "R", "S", "T", "U", "V", "W", "X", "Y", "Z"}

\* \w
WordCh == LetterCh \cup DigitCh \cup {"_"}

\* \s (the members that occur in the modelled inputs)
SpaceCh == {" ", "\t", "\n", "\r", "\f"}

\* the characters "." does not match
LineTermCh == {"\n", "\r"}

(***************************************************************************)
(* Literal tokens of the regular expressions and of includes().            *)
(***************************************************************************)
LOpen == <<"{", "{">>
LClose == <<"}", "}">>
LEach == <<"{", "{", "#", "e", "a", "c", "h">>
LEndEach == <<"{", "{", "/", "e", "a", "c", "h", "}", "}">>
LIf == <<"{", "{", "#", "i", "f">>
LIfThis == <<"{", "{", "#", "i", "f", " ", "t", "h", "i", "s", ".">>
LElse == <<"{", "{", "e", "l", "s", "e", "}", "}">>
LEndIf == <<"{", "{", "/", "i", "f", "}", "}">>
LThisDot == <<"t", "h", "i", "s", ".">>
LIndex == <<"{", "{", "@", "i", "n", "d", "e", "x", "}", "}">>
LLength == <<"l", "e", "n", "g", "t", "h">>

(***************************************************************************)
(* JavaScript values.                                                      *)
(***************************************************************************)
Undef == [t |-> "undefined", v |-> <<>>]
Null == [t |-> "null", v |-> <<>>]
Str(s) == [t |-> "string", v |-> s]
Num(n) == [t |-> "number", v |-> n]
Bool(b) == [t |-> "boolean", v |-> b]
Arr(es) == [t |-> "array", v |-> es]
\* an object: its entries <<[k |-> key, v |-> value], ...>> in insertion order
Obj(kvs) == [t |-> "object", v |-> kvs]
KV(key, val) == [k |-> key, v |-> val]

(***************************************************************************)
(* String primitives.                                                      *)
(***************************************************************************)
\* s.startsWith(lit, i - 1), with 1-based i
IsAt(s, i, lit) ==
    /\ i >= 1
    /\ i + Len(lit) - 1 <= Len(s)
    /\ \A k \in 1..Len(lit) : s[i + k - 1] = lit[k]

RECURSIVE IndexFrom(_, _, _)
\* s.indexOf(lit, i - 1) + 1: the least position >= i where lit occurs, 0 if none
IndexFrom(s, lit, i) ==
    IF i + Len(lit) - 1 > Len(s) THEN 0
    ELSE IF IsAt(s, i, lit) THEN i
    ELSE IndexFrom(s, lit, i + 1)

\* s.includes(lit)
Includes(s, lit) == IndexFrom(s, lit, 1) # 0

RECURSIVE SkipWhile(_, _, _)
\* the first position >= i whose character is not in class (a greedy class+ run)
SkipWhile(s, i, class) ==
    IF i <= Len(s) /\ s[i] \in class THEN SkipWhile(s, i + 1, class) ELSE i

\* s.substring(a - 1, b - 1) with 1-based a: the characters a .. b-1
Sub(s, a, b) == SubSeq(s, a, b - 1)

RECURSIVE Split(_, _)
\* path.split(sep) for a one-character separator
Split(s, sep) ==
    LET j == IndexFrom(s, <<sep>>, 1)
    IN IF j = 0 THEN <<s>>
       ELSE <<Sub(s, 1, j)>> \o Split(Sub(s, j + 1, Len(s) + 1), sep)

RECURSIVE Concat(_)
\* array.join('')
Concat(ss) == IF ss = <<>> THEN <<>> ELSE Head(ss) \o Concat(Tail(ss))

AllDigits(s) == s # <<>> /\ \A i \in DOMAIN s : s[i] \in DigitCh

DigitVal(c) == (CHOOSE i \in DOMAIN DigitChars : DigitChars[i] = c) - 1

RECURSIVE ParseInt(_)
\* parseInt of a string of digits
ParseInt(s) ==
    IF s = <<>> THEN 0
    ELSE ParseInt(Sub(s, 1, Len(s))) * 10 + DigitVal(s[Len(s)])

RECURSIVE NatToStr(_)
NatToStr(n) ==
    IF n < 10 THEN <<DigitChars[n + 1]>>
    ELSE NatToStr(n \div 10) \o <<DigitChars[(n % 10) + 1]>>

\* String(n) for an integer n
IntToStr(n) == IF n < 0 THEN <<"-">> \o NatToStr(0 - n) ELSE NatToStr(n)

(***************************************************************************)
(* Value helpers of JavaScript that the engine relies on.                  *)
(***************************************************************************)
\* a canonical array index: "0", "7", "12", never "07"
IsIndexKey(key) == AllDigits(key) /\ (Len(key) = 1 \/ key[1] # "0")

HasKey(o, key) == \E i \in DOMAIN o.v : o.v[i].k = key

GetKey(o, key) == o.v[CHOOSE i \in DOMAIN o.v : o.v[i].k = key].v

\* `key in value` for a value whose typeof is "object": own keys, indices and
\* length (the members inherited from Object.prototype and Array.prototype
\* are not among the keys the modelled templates name)
HasProp(value, key) ==
    CASE value.t = "object" -> HasKey(value, key)
      [] value.t = "array" ->
            \/ key = LLength
            \/ IsIndexKey(key) /\ ParseInt(key) < Len(value.v)
      [] OTHER -> FALSE

\* value[key] for a value that is neither null nor undefined
GetProp(value, key) ==
    CASE value.t = "object" ->
            IF HasKey(value, key) THEN GetKey(value, key) ELSE Undef
      [] value.t = "array" ->
            IF key = LLength THEN Num(Len(value.v))
            ELSE IF IsIndexKey(key) /\ ParseInt(key) < Len(value.v)
                 THEN value.v[ParseInt(key) + 1]
                 ELSE Undef
      [] value.t = "string" ->
            IF key = LLength THEN Num(Len(value.v))
            ELSE IF IsIndexKey(key) /\ ParseInt(key) < Len(value.v)
                 THEN Str(<<value.v[ParseInt(key) + 1]>>)
                 ELSE Undef
      [] OTHER -> Undef

\* value[key] raises a TypeError exactly when value is null or undefined
PropThrows(value) == value.t \in {"null", "undefined"}

\* the language's own truthiness, as used by `!x`, `x && y` and `x || y`
JsTruthy(value) ==
    CASE value.t \in {"undefined", "null"} -> FALSE
      [] value.t = "string" -> value.v # <<>>
      [] value.t = "number" -> value.v # 0
      [] value.t = "boolean" -> value.v
      [] OTHER -> TRUE

RECURSIVE JoinWith(_, _)
JoinWith(ss, sep) ==
    IF ss = <<>> THEN <<>>
    ELSE IF Len(ss) = 1 THEN ss[1]
    ELSE ss[1] \o sep \o JoinWith(Tail(ss), sep)

RECURSIVE ToStr(_)
\* String(value), also the coercion replace() applies to a callback's result
ToStr(value) ==
    CASE value.t = "undefined" -> <<"u", "n", "d", "e", "f", "i", "n", "e", "d">>
      [] value.t = "null" -> <<"n", "u", "l", "l">>
      [] value.t = "string" -> value.v
      [] value.t = "number" -> IntToStr(value.v)
      [] value.t = "boolean" ->
            IF value.v THEN <<"t", "r", "u", "e">>
            ELSE <<"f", "a", "l", "s", "e">>
      [] value.t = "array" ->
            JoinWith([i \in DOMAIN value.v |->
                        IF value.v[i].t \in {"undefined", "null"} THEN <<>>
                        ELSE ToStr(value.v[i])], <<",">>)
      [] OTHER ->
            <<"[", "o", "b", "j", "e", "c", "t", " ",
              "O", "b", "j", "e", "c", "t", "]">>

RECURSIVE QuoteChars(_)
\* the escapes JSON.stringify applies inside a string
QuoteChars(s) ==
    IF s = <<>> THEN <<>>
    ELSE LET c == Head(s)
             e == CASE c = "\"" -> <<"\\", "\"">>
                    [] c = "\\" -> <<"\\", "\\">>
                    [] c = "\n" -> <<"\\", "n">>
                    [] c = "\r" -> <<"\\", "r">>
                    [] c = "\t" -> <<"\\", "t">>
                    [] c = "\f" -> <<"\\", "f">>
                    [] OTHER -> <<c>>
         IN e \o QuoteChars(Tail(s))

JsonQuote(s) == <<"\"">> \o QuoteChars(s) \o <<"\"">>

RECURSIVE JsonStringify(_)
\* JSON.stringify(value) for a value that is not undefined
JsonStringify(value) ==
    CASE value.t \in {"null", "undefined"} -> <<"n", "u", "l", "l">>
      [] value.t = "string" -> JsonQuote(value.v)
      [] value.t = "number" -> IntToStr(value.v)
      [] value.t = "boolean" -> ToStr(value)
      [] value.t = "array" ->
            <<"[">> \o JoinWith([i \in DOMAIN value.v |->
                                    JsonStringify(value.v[i])], <<",">>)
                    \o <<"]">>
      [] OTHER ->
            LET kept == SelectSeq(value.v, LAMBDA e : e.v.t # "undefined")
            IN <<"{">> \o JoinWith([i \in DOMAIN kept |->
                                       JsonQuote(kept[i].k) \o <<":">>
                                         \o JsonStringify(kept[i].v)], <<",">>)
                       \o <<"}">>

(***************************************************************************)
(* isTruthy and getNestedValue.                                            *)
(***************************************************************************)
\* isTruthy with the language's own truthiness in place of the engine's rule:
\* 0, NaN and false become falsy
isTruthyNative(value) == JsTruthy(value)

isTruthy(value) ==
    IF value.t = "null" \/ value.t = "undefined"
       \/ (value.t = "string" /\ value.v = <<>>)
    THEN FALSE
    ELSE IF value.t = "array" THEN Len(value.v) > 0
    ELSE TRUE

RECURSIVE WalkParts(_, _)
\* the for loop of getNestedValue over the parts of the path
WalkParts(value, parts) ==
    IF parts = <<>> THEN value
    ELSE IF JsTruthy(value) /\ value.t \in {"object", "array"}
            /\ HasProp(value, Head(parts))
         THEN WalkParts(GetProp(value, Head(parts)), Tail(parts))
         ELSE Undef

getNestedValue(obj, path) ==
    IF ~JsTruthy(obj) \/ path = <<>> THEN Undef
    ELSE WalkParts(obj, Split(path, "."))

(***************************************************************************)
(* The regular expressions.  A match is [index, len, var, g2, g3]: where   *)
(* it starts, how long the full match is, and its capture groups.          *)
(***************************************************************************)
NoOpen == [ok |-> FALSE, var |-> <<>>, end |-> 0]

\* kw \s+ pre (\w+) \}\} anchored at i, where kw is {{#if or {{#each and pre
\* is empty or this\. ; end is the position after the closing braces
OpenAt(s, i, kw, pre) ==
    LET a == i + Len(kw)
        b == SkipWhile(s, a, SpaceCh)
        c == b + Len(pre)
        d == SkipWhile(s, c, WordCh)
    IN IF IsAt(s, i, kw) /\ b > a /\ IsAt(s, b, pre) /\ d > c
          /\ IsAt(s, d, LClose)
       THEN [ok |-> TRUE, var |-> Sub(s, c, d), end |-> d + Len(LClose)]
       ELSE NoOpen

NoMatch == [ok |-> FALSE, index |-> 0, len |-> 0, var |-> <<>>,
            g2 |-> <<>>, g3 |-> <<>>]

\* /\{\{#if\s+(pre)(\w+)\}\}([\s\S]*?)\{\{else\}\}([\s\S]*?)\{\{\/if\}\}/
\* anchored at i: the lazy groups end at the first {{else}} after the opener
\* and at the first {{/if}} after that {{else}}
IfElseAt(s, i, pre) ==
    LET o == OpenAt(s, i, LIf, pre)
        j == IF o.ok THEN IndexFrom(s, LElse, o.end) ELSE 0
        k == IF j # 0 THEN IndexFrom(s, LEndIf, j + Len(LElse)) ELSE 0
    IN IF k # 0
       THEN [ok |-> TRUE, index |-> i, len |-> k + Len(LEndIf) - i,
             var |-> o.var, g2 |-> Sub(s, o.end, j),
             g3 |-> Sub(s, j + Len(LElse), k)]
       ELSE NoMatch

\* /\{\{#if\s+(pre)(\w+)\}\}([\s\S]*?)\{\{\/if\}\}/ anchored at i
IfAt(s, i, pre) ==
    LET o == OpenAt(s, i, LIf, pre)
        k == IF o.ok THEN IndexFrom(s, LEndIf, o.end) ELSE 0
    IN IF k # 0
       THEN [ok |-> TRUE, index |-> i, len |-> k + Len(LEndIf) - i,
             var |-> o.var, g2 |-> Sub(s, o.end, k), g3 |-> <<>>]
       ELSE NoMatch

\* /\{\{#each\s+(\w+)\}\}([\s\S]*?)\{\{\/each\}\}/ anchored at i
EachAt(s, i) ==
    LET o == OpenAt(s, i, LEach, <<>>)
        k == IF o.ok THEN IndexFrom(s, LEndEach, o.end) ELSE 0
    IN IF k # 0
       THEN [ok |-> TRUE, index |-> i, len |-> k + Len(LEndEach) - i,
             var |-> o.var, g2 |-> Sub(s, o.end, k), g3 |-> <<>>]
       ELSE NoMatch

RECURSIVE SegsFrom(_, _)
\* \w+(?:\.\w+)*\}\} from position p: the segments, and the position after
\* the closing braces (0 when there is no match)
SegsFrom(s, p) ==
    LET d == SkipWhile(s, p, WordCh)
    IN IF d = p THEN [segs |-> <<>>, end |-> 0]
       ELSE IF IsAt(s, d, LClose)
            THEN [segs |-> <<Sub(s, p, d)>>, end |-> d + Len(LClose)]
       ELSE IF IsAt(s, d, <<".">>)
            THEN LET r == SegsFrom(s, d + 1)
                 IN IF r.end = 0 THEN r
                    ELSE [segs |-> <<Sub(s, p, d)>> \o r.segs, end |-> r.end]
       ELSE [segs |-> <<>>, end |-> 0]

\* which dotted placeholders each of the five placeholder expressions takes
PathKindOk(kind, segs) ==
    CASE kind = "this1" -> Len(segs) = 2 /\ segs[1] = <<"t", "h", "i", "s">>
      [] kind = "this2" -> Len(segs) = 3 /\ segs[1] = <<"t", "h", "i", "s">>
      [] kind = "indexField" -> Len(segs) = 3 /\ AllDigits(segs[2])
      [] kind = "index" -> Len(segs) = 2 /\ AllDigits(segs[2])
      [] OTHER -> TRUE

\* one of the placeholder expressions anchored at i; var holds the segments
PathAt(s, i, kind) ==
    LET r == IF IsAt(s, i, LOpen) THEN SegsFrom(s, i + Len(LOpen))
             ELSE [segs |-> <<>>, end |-> 0]
    IN IF r.end # 0 /\ PathKindOk(kind, r.segs)
       THEN [ok |-> TRUE, index |-> i, len |-> r.end - i, var |-> r.segs,
             g2 |-> Sub(s, i + Len(LOpen), r.end - Len(LClose)), g3 |-> <<>>]
       ELSE NoMatch

\* /\{\{[#\/]?\w+.*?\}\}/ anchored at i
TagAt(s, i) ==
    LET a == i + Len(LOpen)
        w == IF a <= Len(s) /\ s[a] \in {"#", "/"} THEN a + 1 ELSE a
        e == IF w <= Len(s) /\ s[w] \in WordCh
             THEN IndexFrom(s, LClose, w + 1) ELSE 0
    IN IF IsAt(s, i, LOpen) /\ e # 0
          /\ \A j \in (w + 1)..(e - 1) : s[j] \notin LineTermCh
       THEN [ok |-> TRUE, index |-> i, len |-> e + Len(LClose) - i,
             var |-> <<>>, g2 |-> <<>>, g3 |-> <<>>]
       ELSE NoMatch

\* /\{\{@index\}\}/ anchored at i
IndexTokenAt(s, i) ==
    IF IsAt(s, i, LIndex)
    THEN [ok |-> TRUE, index |-> i, len |-> Len(LIndex), var |-> <<>>,
          g2 |-> <<>>, g3 |-> <<>>]
    ELSE NoMatch

\* the expression named by rx anchored at i
MatchAt(s, i, rx) ==
    CASE rx = "ifElse" -> IfElseAt(s, i, <<>>)
      [] rx = "if" -> IfAt(s, i, <<>>)
      [] rx = "ifElseThis" -> IfElseAt(s, i, LThisDot)
      [] rx = "ifThis" -> IfAt(s, i, LThisDot)
      [] rx = "each" -> EachAt(s, i)
      [] rx = "tag" -> TagAt(s, i)
      [] rx = "atIndex" -> IndexTokenAt(s, i)
      [] OTHER -> PathAt(s, i, rx)

RECURSIVE FindAll(_, _, _)
\* all matches of a global expression in s from position p on, left to right
\* and not overlapping (every expression starts with two opening braces)
FindAll(s, p, rx) ==
    LET i == IndexFrom(s, LOpen, p)
    IN IF i = 0 THEN <<>>
       ELSE LET m == MatchAt(s, i, rx)
            IN IF m.ok THEN <<m>> \o FindAll(s, i + m.len, rx)
               ELSE FindAll(s, i + 1, rx)

RECURSIVE Rebuild(_, _, _, _, _)
\* s.replace(rx, callback): the text between the matches is kept, every
\* match gives way to its replacement; repls[k] replaces ms[k]
Rebuild(s, ms, repls, k, pos) ==
    IF k > Len(ms) THEN Sub(s, pos, Len(s) + 1)
    ELSE Sub(s, pos, ms[k].index) \o repls[k]
           \o Rebuild(s, ms, repls, k + 1, ms[k].index + ms[k].len)

ReplaceAll(s, ms, repls) == Rebuild(s, ms, repls, 1, 1)

RECURSIVE SpliceReverse(_, _, _, _)
\* for (i = matches.length - 1; i >= 0; i--)
\*     s = s.substring(0, m.index) + replacement + s.substring(m.index + m.fullMatch.length)
SpliceReverse(s, ms, repls, i) ==
    IF i = 0 THEN s
    ELSE SpliceReverse(Sub(s, 1, ms[i].index) \o repls[i]
                         \o Sub(s, ms[i].index + ms[i].len, Len(s) + 1),
                       ms, repls, i - 1)

(***************************************************************************)
(* The each loop (lines 22-72).  Rendering raises a TypeError when a       *)
(* callback reads a property of a null or undefined item; an outcome is    *)
(* [threw, s].                                                             *)
(***************************************************************************)
Ok(s) == [threw |-> FALSE, s |-> s]
Threw == [threw |-> TRUE, s |-> <<>>]

\* item[prop] || ''
ThisValue(value) == IF JsTruthy(value) THEN ToStr(value) ELSE <<>>

\* (item[prop1] && item[prop1][prop2]) || ''
ThisSubValue(v1, prop2) ==
    IF JsTruthy(v1) THEN ThisValue(GetProp(v1, prop2)) ELSE <<>>

\* the callbacks of the four item-scoped replaces, for a match m of rx
ItemCallback(rx, item, m) ==
    CASE rx = "ifElseThis" ->
            \* lines 38-43
            IF isTruthy(GetProp(item, m.var)) THEN m.g2 ELSE m.g3
      [] rx = "ifThis" ->
            \* lines 46-51
            IF isTruthy(GetProp(item, m.var)) THEN m.g2 ELSE <<>>
      [] rx = "this1" ->
            \* lines 56-58
            ThisValue(GetProp(item, m.var[2]))
      [] OTHER ->
            \* lines 61-63
            ThisSubValue(GetProp(item, m.var[2]), m.var[3])

\* every callback reads a property of item: the first call throws when the
\* item is null or undefined
ItemApply(content, item, rx, ms) ==
    IF ms # <<>> /\ PropThrows(item) THEN Threw
    ELSE Ok(ReplaceAll(content, ms,
                       [k \in DOMAIN ms |-> ItemCallback(rx, item, ms[k])]))

\* itemContent = itemContent.replace(rx, callback), after the outcome r
ItemReplace(r, item, rx) ==
    IF r.threw THEN r ELSE ItemApply(r.s, item, rx, FindAll(r.s, 1, rx))

\* one round of the in-loop conditional loop: the if/else replace, then the
\* simple-if replace (lines 37-51)
ItemIfRound(content, item) ==
    ItemReplace(ItemReplace(Ok(content), item, "ifElseThis"), item, "ifThis")

RECURSIVE ItemIfLoop(_, _, _)
\* while (itemContent.includes('{{#if this.') && nestedCount < 5)
ItemIfLoop(r, item, nestedCount) ==
    IF ~r.threw /\ Includes(r.s, LIfThis) /\ nestedCount < MaxItemIfPasses
    THEN ItemIfLoop(ItemIfRound(r.s, item), item, nestedCount + 1)
    ELSE r

\* itemContent.replace(/\{\{@index\}\}/g, index)
IndexApply(content, index, ms) ==
    ReplaceAll(content, ms, [k \in DOMAIN ms |-> ToStr(Num(index))])

\* the index replace with positions counted from 1
ReplaceIndexOneBased(r, index) ==
    IF r.threw THEN r
    ELSE Ok(IndexApply(r.s, index + 1, FindAll(r.s, 1, "atIndex")))

ReplaceIndex(r, index) ==
    IF r.threw THEN r
    ELSE Ok(IndexApply(r.s, index, FindAll(r.s, 1, "atIndex")))

\* a bare placeholder gives way to the item's field of that name, when the
\* item has one
ShadowReplace(s, item, ms) ==
    ReplaceAll(s, ms,
        [k \in DOMAIN ms |->
            IF HasProp(item, ms[k].g2) THEN ThisValue(GetProp(item, ms[k].g2))
            ELSE Sub(s, ms[k].index, ms[k].index + ms[k].len)])

ShadowApply(r, item) ==
    IF r.threw THEN r ELSE Ok(ShadowReplace(r.s, item, FindAll(r.s, 1, "simple")))

\* a copy in which the item's fields shadow the root keys
RenderItemShadowing(content, item, index) ==
    ReplaceIndex(
        ShadowApply(
            ItemReplace(
                ItemReplace(ItemIfLoop(Ok(content), item, 0), item, "this1"),
                item, "this2"),
            item),
        index)

\* the callback of array.map: one copy of the body for one item (lines 31-69)
RenderItem(content, item, index) ==
    ReplaceIndex(
        ItemReplace(
            ItemReplace(ItemIfLoop(Ok(content), item, 0), item, "this1"),
            item, "this2"),
        index)

\* array.map(...).join(): the copies joined with the default separator
JoinCopiesComma(copies) ==
    IF \E k \in DOMAIN copies : copies[k].threw THEN Threw
    ELSE Ok(JoinWith([k \in DOMAIN copies |-> copies[k].s], <<",">>))

\* array.map(...).join('')
JoinCopies(copies) ==
    IF \E k \in DOMAIN copies : copies[k].threw THEN Threw
    ELSE Ok(Concat([k \in DOMAIN copies |-> copies[k].s]))

\* every copy rendered against the first element
RenderArrayFirstItem(content, array) ==
    IF array.t # "array" \/ Len(array.v) = 0 THEN Ok(<<>>)
    ELSE JoinCopies([k \in DOMAIN array.v |->
                        RenderItem(content, array.v[1], k - 1)])

\* the body of the each callback once the path is resolved (lines 27-69)
RenderArray(content, array) ==
    IF array.t # "array" \/ Len(array.v) = 0 THEN Ok(<<>>)
    ELSE JoinCopies([k \in DOMAIN array.v |->
                        RenderItem(content, array.v[k], k - 1)])

\* the callback of the each replace: one block (lines 25-70)
RenderEach(m, doc) == RenderArray(m.g2, getNestedValue(doc, m.var))

EachApply(s, ms, rs) ==
    IF \E k \in DOMAIN rs : rs[k].threw THEN Threw
    ELSE Ok(ReplaceAll(s, ms, [k \in DOMAIN rs |-> rs[k].s]))

EachMatches(s, ms, doc) ==
    EachApply(s, ms, [k \in DOMAIN ms |-> RenderEach(ms[k], doc)])

\* one iteration of the each while loop: the global replace of line 25
EachReplace(s, doc) == EachMatches(s, FindAll(s, 1, "each"), doc)

(***************************************************************************)
(* Conditionals (lines 74-207).                                            *)
(***************************************************************************)
\* the branch a conditional match m leaves behind for the document
ChosenBranch(m, doc) ==
    IF isTruthy(getNestedValue(doc, m.var)) THEN m.g2 ELSE m.g3

\* the reverse splice loops of lines 98-103 and 122-127 (a simple-if match
\* has an empty g3)
SpliceBranches(s, ms, doc) ==
    SpliceReverse(s, ms, [k \in DOMAIN ms |-> ChosenBranch(ms[k], doc)], Len(ms))

\* collect the matches of rx, then splice them in reverse
NestedPass(s, doc, rx) == SpliceBranches(s, FindAll(s, 1, rx), doc)

\* one round of processNestedConditionals (lines 80-129)
NestedRound(processed, doc) ==
    NestedPass(NestedPass(processed, doc, "ifElse"), doc, "if")

RECURSIVE NestedLoop(_, _, _)
\* while (processed.includes('{{#if') && nestedCount < 5)
NestedLoop(processed, doc, nestedCount) ==
    IF Includes(processed, LIf) /\ nestedCount < MaxNestedPasses
    THEN NestedLoop(NestedRound(processed, doc), doc, nestedCount + 1)
    ELSE processed

processNestedConditionals(content, doc) == NestedLoop(content, doc, 0)

\* lines 156-170
SpliceIfElse(s, ms, doc) ==
    SpliceReverse(s, ms,
        [k \in DOMAIN ms |->
            processNestedConditionals(ChosenBranch(ms[k], doc), doc)],
        Len(ms))

\* the if/else half of one pass (lines 139-170)
IfElsePass(s, doc) == SpliceIfElse(s, FindAll(s, 1, "ifElse"), doc)

Max(a, b) == IF a > b THEN a ELSE b
Min(a, b) == IF a < b THEN a ELSE b

\* the context test of lines 181-184: no {{else}} within 100 characters
\* before the match, nor in the match and the 100 characters after it
NoElseAround(s, m) ==
    /\ ~Includes(Sub(s, Max(1, m.index - ElseWindow), m.index), LElse)
    /\ ~Includes(Sub(s, m.index,
                     Min(Len(s) + 1, m.index + m.len + ElseWindow)), LElse)

\* lines 179-192: the simple-if matches that pass the context test
SimpleIfMatches(s) ==
    SelectSeq(FindAll(s, 1, "if"), LAMBDA m : NoElseAround(s, m))

\* the simple-if half of one pass (lines 173-204)
SimpleIfPass(s, doc) == SpliceBranches(s, SimpleIfMatches(s), doc)

\* one iteration of the conditional while loop
IfPassResult(s, doc) == SimpleIfPass(IfElsePass(s, doc), doc)

(***************************************************************************)
(* Placeholders and cleanup (lines 209-237).                               *)
(***************************************************************************)
\* array[parseInt(index)] when array is an array, undefined otherwise
ElementAt(array, index) ==
    IF array.t = "array" THEN GetProp(array, IntToStr(ParseInt(index)))
    ELSE Undef

\* array[parseInt(index)][prop] || '' behind the guard of line 212
FieldOf(elem, prop) ==
    IF JsTruthy(elem) THEN ThisValue(GetProp(elem, prop)) ELSE <<>>

\* JSON.stringify(array[parseInt(index)]) behind the guard of line 221
JsonOf(elem) == IF JsTruthy(elem) THEN JsonStringify(elem) ELSE <<>>

\* lines 229-233
TextOf(value) ==
    IF value.t \in {"null", "undefined"} THEN <<>> ELSE ToStr(value)

\* the callbacks of the three root-scoped placeholder replaces
PlaceholderCallback(rx, doc, m) ==
    CASE rx = "indexField" ->
            FieldOf(ElementAt(getNestedValue(doc, m.var[1]), m.var[2]), m.var[3])
      [] rx = "index" ->
            JsonOf(ElementAt(getNestedValue(doc, m.var[1]), m.var[2]))
      [] OTHER -> TextOf(getNestedValue(doc, m.g2))

PlaceholderApply(s, doc, rx, ms) ==
    ReplaceAll(s, ms, [k \in DOMAIN ms |-> PlaceholderCallback(rx, doc, ms[k])])

\* result = result.replace(rx, callback)
ReplacePlaceholders(s, doc, rx) ==
    PlaceholderApply(s, doc, rx, FindAll(s, 1, rx))

\* the matches of the cleanup expression give way to nothing
RemoveAll(s, ms) == ReplaceAll(s, ms, [k \in DOMAIN ms |-> <<>>])

\* line 237: result.replace(/\{\{[#\/]?\w+.*?\}\}/g, '')
Sanitize(s) == RemoveAll(s, FindAll(s, 1, "tag"))

(***************************************************************************)
(* The inputs of the modelled render calls: templates and documents.       *)
(***************************************************************************)
\* {{#if k}}A{{else}}B{{/if}}
TplTruth ==
    <<"{", "{", "#", "i", "f", " ", "k", "}", "}", "A", "{", "{", "e", "l",
      "s", "e", "}", "}", "B", "{", "{", "/", "i", "f", "}", "}">>

\* {{#if a}}{{#if b}}X{{else}}Y{{/if}}{{else}}Z{{/if}}
TplNested ==
    <<"{", "{", "#", "i", "f", " ", "a", "}", "}", "{", "{", "#", "i", "f",
      " ", "b", "}", "}", "X", "{", "{", "e", "l", "s", "e", "}", "}",
      "Y", "{", "{", "/", "i", "f", "}", "}", "{", "{", "e", "l", "s",
      "e", "}", "}", "Z", "{", "{", "/", "i", "f", "}", "}">>

\* {{#if a}}X{{/if}} {{#if b}}Y{{else}}Z{{/if}}
TplSibling ==
    <<"{", "{", "#", "i", "f", " ", "a", "}", "}", "X", "{", "{", "/", "i",
      "f", "}", "}", " ", "{", "{", "#", "i", "f", " ", "b", "}", "}",
      "Y", "{", "{", "e", "l", "s", "e", "}", "}", "Z", "{", "{", "/",
      "i", "f", "}", "}">>

\* {{#each k}}{{#if this.a}}X{{/if}} {{#if this.b}}Y{{else}}Z{{/if}}{{/each}}
TplSiblingThis ==
    <<"{", "{", "#", "e", "a", "c", "h", " ", "k", "}", "}", "{", "{", "#",
      "i", "f", " ", "t", "h", "i", "s", ".", "a", "}", "}", "X", "{",
      "{", "/", "i", "f", "}", "}", " ", "{", "{", "#", "i", "f", " ",
      "t", "h", "i", "s", ".", "b", "}", "}", "Y", "{", "{", "e", "l",
      "s", "e", "}", "}", "Z", "{", "{", "/", "i", "f", "}", "}", "{",
      "{", "/", "e", "a", "c", "h", "}", "}">>

\* {{#if a}}P{{#if b}}X{{/if}}Q{{/if}}
TplSimpleNested ==
    <<"{", "{", "#", "i", "f", " ", "a", "}", "}", "P", "{", "{", "#", "i",
      "f", " ", "b", "}", "}", "X", "{", "{", "/", "i", "f", "}", "}",
      "Q", "{", "{", "/", "i", "f", "}", "}">>

\* {{#if c.p}}X{{else}}Y{{/if}}
TplDotted ==
    <<"{", "{", "#", "i", "f", " ", "c", ".", "p", "}", "}", "X", "{", "{",
      "e", "l", "s", "e", "}", "}", "Y", "{", "{", "/", "i", "f", "}",
      "}">>

\* {{#if c.p}}X{{/if}}
TplDottedSimple ==
    <<"{", "{", "#", "i", "f", " ", "c", ".", "p", "}", "}", "X", "{", "{",
      "/", "i", "f", "}", "}">>

\* {{#each k}}[{{@index}}:{{this.n}}]{{/each}}
TplEach ==
    <<"{", "{", "#", "e", "a", "c", "h", " ", "k", "}", "}", "[", "{", "{",
      "@", "i", "n", "d", "e", "x", "}", "}", ":", "{", "{", "t", "h",
      "i", "s", ".", "n", "}", "}", "]", "{", "{", "/", "e", "a", "c",
      "h", "}", "}">>

\* <{{#each k}}-{{/each}}>
TplEachPlain ==
    <<"<", "{", "{", "#", "e", "a", "c", "h", " ", "k", "}", "}", "-", "{",
      "{", "/", "e", "a", "c", "h", "}", "}", ">">>

\* {{#each k}}X{{this.n}}{{@index}}
TplUnclosed ==
    <<"{", "{", "#", "e", "a", "c", "h", " ", "k", "}", "}", "X", "{", "{",
      "t", "h", "i", "s", ".", "n", "}", "}", "{", "{", "@", "i", "n",
      "d", "e", "x", "}", "}">>

\* {{#each k}}X{{this.n}}
TplUnclosedPlain ==
    <<"{", "{", "#", "e", "a", "c", "h", " ", "k", "}", "}", "X", "{", "{",
      "t", "h", "i", "s", ".", "n", "}", "}">>

\* {{@index}}
TplIndexOutside ==
    <<"{", "{", "@", "i", "n", "d", "e", "x", "}", "}">>

\* {{ a }}
TplSpaced ==
    <<"{", "{", " ", "a", " ", "}", "}">>

\* {{\na}}
TplNewline ==
    <<"{", "{", "\n", "a", "}", "}">>

\* {{{{#a}}b}}
TplBraced ==
    <<"{", "{", "{", "{", "#", "a", "}", "}", "b", "}", "}">>

\* root values for the truthiness cases
TruthValues ==
    {Undef, Null, Str(<<>>), Str(<<"x">>), Str(<<"f", "a", "l", "s", "e">>),
     Str(<<"0">>), Num(0), Num(1), Bool(FALSE), Bool(TRUE), Arr(<<>>),
     Arr(<<Num(0)>>), Obj(<<>>)}

\* {k: v}, and the document without k
TruthDocs == {Obj(<<>>)} \cup {Obj(<<KV(<<"k">>, v)>>) : v \in TruthValues}

\* values of the paths a and b of the two-conditional templates
FlagValues == {Str(<<"y">>), Num(0), Str(<<>>), Null}

FlagObjs == {Obj(<<KV(<<"a">>, x), KV(<<"b">>, y)>>) : x, y \in FlagValues}

\* {k: [{a: x, b: y}]}
FlagItemDocs == {Obj(<<KV(<<"k">>, Arr(<<o>>))>>) : o \in FlagObjs}

\* {c: {p: v}}, and the document without c
DottedDocs ==
    {Obj(<<>>)} \cup
    {Obj(<<KV(<<"c">>, Obj(<<KV(<<"p">>, v)>>))>>) :
        v \in {Str(<<"1">>), Str(<<>>), Null}}

\* elements of the sequences: mappings, null, a string, a number
Items ==
    {Obj(<<KV(<<"n">>, Str(<<"x">>))>>), Obj(<<KV(<<"n">>, Str(<<"y", "z">>))>>),
     Obj(<<>>), Null, Str(<<"s">>), Num(5)}

\* {k: [items]} for every sequence of at most MaxItems items
EachDocs ==
    {Obj(<<KV(<<"k">>, Arr(items))>>) :
        items \in UNION {[1..n -> Items] : n \in 0..MaxItems}}

\* pieces of the generated templates
Frags == {LOpen, LClose, <<"#">>, <<"@">>, <<" ">>, <<"\n">>, <<"a">>}

GenTemplates ==
    {Concat(fs) : fs \in UNION {[1..n -> Frags] : n \in 1..MaxFrags}}

GenDocs == {Obj(<<KV(<<"a">>, Str(<<"v">>))>>)}

\* <{{#each c.p}}-{{/each}}>
TplEachDotted ==
    <<"<", "{", "{", "#", "e", "a", "c", "h", " ", "c", ".", "p", "}", "}",
      "-", "{", "{", "/", "e", "a", "c", "h", "}", "}", ">">>

\* {c: {p: v}} for a non-sequence, an empty and a non-empty sequence at c.p
DottedEachDocs ==
    DottedDocs \cup
    {Obj(<<KV(<<"c">>, Obj(<<KV(<<"p">>, v)>>))>>) :
        v \in {Num(7), Arr(<<>>), Arr(<<Str(<<"s">>)>>)}}

\* Hello {{name}}. {{#each services}}- {{this.name}} {{/each}}
TplRoundTrip ==
    <<"H", "e", "l", "l", "o", " ", "{", "{", "n", "a", "m", "e", "}", "}",
      ".", " ", "{", "{", "#", "e", "a", "c", "h", " ", "s", "e", "r",
      "v", "i", "c", "e", "s", "}", "}", "-", " ", "{", "{", "t", "h",
      "i", "s", ".", "n", "a", "m", "e", "}", "}", " ", "{", "{", "/",
      "e", "a", "c", "h", "}", "}">>

\* the keys and the texts of the round-trip document
KeyName ==
    <<"n", "a", "m", "e">>

KeyServices ==
    <<"s", "e", "r", "v", "i", "c", "e", "s">>

TxtAcePlumbing ==
    <<"A", "c", "e", " ", "P", "l", "u", "m", "b", "i", "n", "g">>

TxtRepair ==
    <<"R", "e", "p", "a", "i", "r">>

TxtInstall ==
    <<"I", "n", "s", "t", "a", "l", "l">>

\* {name: "Ace Plumbing", services: [{name: "Repair"}, {name: "Install"}]}
RoundTripDoc ==
    Obj(<<KV(KeyName, Str(TxtAcePlumbing)),
          KV(KeyServices, Arr(<<Obj(<<KV(KeyName, Str(TxtRepair))>>),
                                Obj(<<KV(KeyName, Str(TxtInstall))>>)>>))>>)

\* the same document with the services in the other order, and without them
RoundTripDocs ==
    {RoundTripDoc,
     Obj(<<KV(KeyName, Str(TxtAcePlumbing)),
           KV(KeyServices, Arr(<<Obj(<<KV(KeyName, Str(TxtInstall))>>),
                                 Obj(<<KV(KeyName, Str(TxtRepair))>>)>>))>>),
     Obj(<<KV(KeyName, Str(TxtAcePlumbing))>>)}

\* {{images.0}}
TplIndexed ==
    <<"{", "{", "i", "m", "a", "g", "e", "s", ".", "0", "}", "}">>

\* {{images.1}}
TplIndexedSecond ==
    <<"{", "{", "i", "m", "a", "g", "e", "s", ".", "1", "}", "}">>

\* {{images}}
TplPlainSeq ==
    <<"{", "{", "i", "m", "a", "g", "e", "s", "}", "}">>

\* {{c.p.0}}
TplIndexedDotted ==
    <<"{", "{", "c", ".", "p", ".", "0", "}", "}">>

\* the key and the texts of the indexed-access document
KeyImages ==
    <<"i", "m", "a", "g", "e", "s">>

TxtAPng ==
    <<"a", ".", "p", "n", "g">>

TxtBPng ==
    <<"b", ".", "p", "n", "g">>

\* {images: ["a.png", "b.png"]}
ImagesDoc == Obj(<<KV(KeyImages, Arr(<<Str(TxtAPng), Str(TxtBPng)>>))>>)

\* elements of the indexed sequences
ImageElems ==
    {Str(TxtAPng), Str(TxtBPng), Str(<<>>), Num(0), Bool(FALSE), Null,
     Obj(<<KV(<<"n">>, Str(<<"x">>))>>)}

\* {images: v} for every sequence of at most two elements, a string, and
\* the document without images
ImageDocs ==
    {Obj(<<>>), Obj(<<KV(KeyImages, Str(TxtAPng))>>)} \cup
    {Obj(<<KV(KeyImages, Arr(es))>>) :
        es \in UNION {[1..n -> ImageElems] : n \in 0..2}}

\* {{k}}
TplBare ==
    <<"{", "{", "k", "}", "}">>

\* [{{c.p}}]
TplBareDotted ==
    <<"[", "{", "{", "c", ".", "p", "}", "}", "]">>

\* a document text that holds placeholder syntax: a{{b}}c
TxtBraces ==
    <<"a", "{", "{", "b", "}", "}", "c">>

\* {k: v} for the values of the truthiness cases, a negative number, a
\* sequence of two texts and a text with placeholder syntax in it
BareDocs ==
    TruthDocs \cup
    {Obj(<<KV(<<"k">>, v)>>) :
        v \in {Num(-3), Arr(<<Str(<<"x">>), Str(<<"y", "z">>)>>),
               Str(TxtBraces)}}

\* {{#each k}}[{{this.n}}]{{/each}}
TplThisField ==
    <<"{", "{", "#", "e", "a", "c", "h", " ", "k", "}", "}", "[", "{", "{",
      "t", "h", "i", "s", ".", "n", "}", "}", "]", "{", "{", "/", "e",
      "a", "c", "h", "}", "}">>

\* {{#each k}}[{{this.n.m}}]{{/each}}
TplThisSubField ==
    <<"{", "{", "#", "e", "a", "c", "h", " ", "k", "}", "}", "[", "{", "{",
      "t", "h", "i", "s", ".", "n", ".", "m", "}", "}", "]", "{", "{",
      "/", "e", "a", "c", "h", "}", "}">>

\* values of the fields read through this.
FieldValues ==
    {Undef, Null, Num(0), Num(1), Bool(FALSE), Bool(TRUE), Str(<<>>),
     Str(<<"x">>)}

\* {k: [{n: v}]}, and {k: [{}]}
FieldDocs ==
    {Obj(<<KV(<<"k">>, Arr(<<Obj(<<>>)>>))>>)} \cup
    {Obj(<<KV(<<"k">>, Arr(<<Obj(<<KV(<<"n">>, v)>>)>>))>>) : v \in FieldValues}

\* {k: [{n: {m: v}}]}, and {k: [{n: {}}]}
SubFieldDocs ==
    {Obj(<<KV(<<"k">>, Arr(<<Obj(<<KV(<<"n">>, Obj(<<>>))>>)>>))>>)} \cup
    {Obj(<<KV(<<"k">>,
              Arr(<<Obj(<<KV(<<"n">>, Obj(<<KV(<<"m">>, v)>>))>>)>>))>>) :
        v \in FieldValues}

\* {{#each k}}-{{/each}}
EachBlockPlain ==
    <<"{", "{", "#", "e", "a", "c", "h", " ", "k", "}", "}", "-", "{", "{",
      "/", "e", "a", "c", "h", "}", "}">>

\* Most each blocks of a template of sequential blocks.
MaxBlocks == 11

RECURSIVE Repeat(_, _)
\* n copies of s, one after the other
Repeat(s, n) == IF n = 0 THEN <<>> ELSE s \o Repeat(s, n - 1)

\* {{#each k}}-{{/each}} once, twice, ... MaxBlocks times
SequentialTemplates == {Repeat(EachBlockPlain, n) : n \in 1..MaxBlocks}

\* {c: {p: ['s', 't']}}
DottedSequenceDocs ==
    {Obj(<<KV(<<"c">>, Obj(<<KV(<<"p">>, Arr(<<Str(<<"s">>), Str(<<"t">>)>>))>>))>>)}

\* {k: [x]} and {k: [x, yz]}
SequentialDocs ==
    {Obj(<<KV(<<"k">>, Arr(items))>>) :
        items \in {<<Str(<<"x">>)>>, <<Str(<<"x">>), Str(<<"y", "z">>)>>}}

\* {{#if a}}X{{else}}Y{{/if}}-{{#if b}}PP{{else}}Q{{/if}}
TplTwoIfElse ==
    <<"{", "{", "#", "i", "f", " ", "a", "}", "}", "X", "{", "{", "e", "l",
      "s", "e", "}", "}", "Y", "{", "{", "/", "i", "f", "}", "}", "-",
      "{", "{", "#", "i", "f", " ", "b", "}", "}", "P", "P", "{", "{",
      "e", "l", "s", "e", "}", "}", "Q", "{", "{", "/", "i", "f", "}",
      "}">>

\* {{#if a}}X{{/if}}-{{#if b}}YY{{/if}}
TplTwoIf ==
    <<"{", "{", "#", "i", "f", " ", "a", "}", "}", "X", "{", "{", "/", "i",
      "f", "}", "}", "-", "{", "{", "#", "i", "f", " ", "b", "}", "}",
      "Y", "Y", "{", "{", "/", "i", "f", "}", "}">>

\* {{#each k}}{{#if this.f}}A{{else}}B{{/if}}{{/each}}
TplIfThis ==
    <<"{", "{", "#", "e", "a", "c", "h", " ", "k", "}", "}", "{", "{", "#",
      "i", "f", " ", "t", "h", "i", "s", ".", "f", "}", "}", "A", "{",
      "{", "e", "l", "s", "e", "}", "}", "B", "{", "{", "/", "i", "f",
      "}", "}", "{", "{", "/", "e", "a", "c", "h", "}", "}">>

\* elements for the in-loop conditional: {f: v}, {}, a string and a number
FlagElems ==
    {Obj(<<KV(<<"f">>, v)>>) : v \in TruthValues}
      \cup {Obj(<<>>), Str(<<"s">>), Num(5)}

\* {k: [e]} and {k: [e1, e2]}
FlagSeqDocs ==
    {Obj(<<KV(<<"k">>, Arr(es))>>) :
        es \in UNION {[1..n -> FlagElems] : n \in 1..2}}

\* {{r}}|{{#each k}}{{r}}{{this.r}};{{/each}}
TplRootInLoop ==
    <<"{", "{", "r", "}", "}", "|", "{", "{", "#", "e", "a", "c", "h", " ",
      "k", "}", "}", "{", "{", "r", "}", "}", "{", "{", "t", "h", "i",
      "s", ".", "r", "}", "}", ";", "{", "{", "/", "e", "a", "c", "h",
      "}", "}">>

\* elements with and without a field named like the root key r
ShadowElems ==
    {Obj(<<KV(<<"r">>, Str(<<"E">>))>>), Obj(<<KV(<<"r">>, Str(<<"R">>))>>),
     Obj(<<>>), Str(<<"s">>)}

\* {r: v, k: [elements]} and {k: [elements]}, one or two elements
RootInLoopDocs ==
    {Obj(root \o <<KV(<<"k">>, Arr(es))>>) :
        root \in {<<>>} \cup {<<KV(<<"r">>, v)>> :
                                v \in {Str(<<"R">>), Str(<<>>), Num(0), Num(7)}},
        es \in UNION {[1..n -> ShadowElems] : n \in 1..2}}

\* {{#each k}}{{this.n}};{{/each}}
TplInject ==
    <<"{", "{", "#", "e", "a", "c", "h", " ", "k", "}", "}", "{", "{", "t",
      "h", "i", "s", ".", "n", "}", "}", ";", "{", "{", "/", "e", "a",
      "c", "h", "}", "}">>

\* S3cret
TxtSecret ==
    <<"S", "3", "c", "r", "e", "t">>

\* {{s}}
TxtPlaceholderS ==
    <<"{", "{", "s", "}", "}">>

\* {{#if s}}Y{{/if}}
TxtIfS ==
    <<"{", "{", "#", "i", "f", " ", "s", "}", "}", "Y", "{", "{", "/", "i",
      "f", "}", "}">>

\* {k: [{n: text}], s: 'S3cret'} and {k: [{n: text}]} for a plain text, a
\* text that reads as a placeholder and one that reads as a conditional
InjectTexts == {<<"x">>, TxtPlaceholderS, TxtIfS}

InjectDocs ==
    {Obj(<<KV(<<"k">>, Arr(<<Obj(<<KV(<<"n">>, Str(v))>>)>>))>> \o rest) :
        v \in InjectTexts,
        rest \in {<<>>, <<KV(<<"s">>, Str(TxtSecret))>>}}

Cases(tpls, docs) == {[template |-> t, data |-> d] : t \in tpls, d \in docs}

Inputs ==
    Cases({TplTruth}, TruthDocs)
      \cup Cases({TplNested, TplSibling, TplSimpleNested}, FlagObjs)
      \cup Cases({TplSiblingThis}, FlagItemDocs)
      \cup Cases({TplDotted, TplDottedSimple}, DottedDocs)
      \cup Cases({TplEach, TplEachPlain, TplUnclosed, TplUnclosedPlain}, EachDocs)
      \cup Cases({TplEach, TplEachPlain}, TruthDocs)
      \cup Cases({TplEachDotted}, DottedEachDocs)
      \cup Cases({TplRoundTrip}, RoundTripDocs)
      \cup Cases({TplIndexed, TplIndexedSecond, TplPlainSeq}, ImageDocs)
      \cup Cases({TplIndexedDotted}, DottedEachDocs)
      \cup Cases({TplBare}, BareDocs)
      \cup Cases({TplBareDotted}, DottedEachDocs)
      \cup Cases({TplThisField}, FieldDocs)
      \cup Cases({TplThisSubField}, FieldDocs \cup SubFieldDocs)
      \cup Cases(SequentialTemplates, SequentialDocs)
      \cup Cases({TplEachDotted}, DottedSequenceDocs)
      \cup Cases({TplTwoIfElse, TplTwoIf}, FlagObjs)
      \cup Cases({TplIfThis}, FlagSeqDocs)
      \cup Cases({TplRootInLoop}, RootInLoopDocs)
      \cup Cases({TplInject}, InjectDocs)
      \cup Cases(GenTemplates \cup {TplIndexOutside, TplSpaced, TplNewline,
                                    TplBraced}, GenDocs)

(***************************************************************************)
(* renderTemplate as a state machine.                                      *)
(***************************************************************************)
\* a file system without files
NoFiles == [p \in {} |-> <<>>]

\* no call of generateWebsite in progress
GenIdle == [pc |-> "idle"]

Init ==
    /\ \E inp \in Inputs :
          /\ template = inp.template
          /\ data = inp.data
          /\ result = inp.template
    /\ pc = "each"
    /\ loopCount = 0
    /\ ifCount = 0
    /\ calls = 1
    /\ disk = NoFiles
    /\ gen = GenIdle

\* the condition of an each loop that allows one scan more
EachGuardOneMore == Includes(result, LEach) /\ loopCount <= MaxEachScans

\* the condition of the each while loop (line 24)
EachGuard == Includes(result, LEach) /\ loopCount < MaxEachScans

\* the document after a loop that takes the elements off its sequences
Drained(doc) ==
    Obj([i \in DOMAIN doc.v |->
            IF doc.v[i].v.t = "array" THEN KV(doc.v[i].k, Arr(<<>>))
            ELSE doc.v[i]])

\* one iteration of an each loop that consumes the sequences it walks
EachScanDraining ==
    /\ pc = "each"
    /\ EachGuard
    /\ \E r \in {EachReplace(result, data)} :
          IF r.threw
          THEN /\ pc' = "threw"
               /\ UNCHANGED <<result, loopCount>>
          ELSE /\ result' = r.s
               /\ loopCount' = loopCount + 1
               /\ pc' = pc
    /\ data' = Drained(data)
    /\ UNCHANGED <<template, ifCount, calls, disk, gen>>

\* one iteration of the each while loop (lines 24-72)
EachScan ==
    /\ pc = "each"
    /\ EachGuard
    /\ \E r \in {EachReplace(result, data)} :
          IF r.threw
          THEN /\ pc' = "threw"
               /\ UNCHANGED <<result, loopCount>>
          ELSE /\ result' = r.s
               /\ loopCount' = loopCount + 1
               /\ pc' = pc
    /\ UNCHANGED <<template, data, ifCount, calls, disk, gen>>

EachDone ==
    /\ pc = "each"
    /\ ~EachGuard
    /\ pc' = "if"
    /\ UNCHANGED <<template, data, result, loopCount, ifCount, calls, disk, gen>>

\* the condition of the conditional while loop (line 137)
IfGuard == Includes(result, LIf) /\ ifCount < MaxIfPasses

\* one iteration of the conditional while loop (lines 137-207)
IfPass ==
    /\ pc = "if"
    /\ IfGuard
    /\ result' = IfPassResult(result, data)
    /\ ifCount' = ifCount + 1
    /\ UNCHANGED <<template, data, pc, loopCount, calls, disk, gen>>

IfDone ==
    /\ pc = "if"
    /\ ~IfGuard
    /\ pc' = "indexField"
    /\ UNCHANGED <<template, data, result, loopCount, ifCount, calls, disk, gen>>

\* lines 210-216
IndexFieldStep ==
    /\ pc = "indexField"
    /\ result' = ReplacePlaceholders(result, data, "indexField")
    /\ pc' = "index"
    /\ UNCHANGED <<template, data, loopCount, ifCount, calls, disk, gen>>

\* lines 219-225
IndexStep ==
    /\ pc = "index"
    /\ result' = ReplacePlaceholders(result, data, "index")
    /\ pc' = "simple"
    /\ UNCHANGED <<template, data, loopCount, ifCount, calls, disk, gen>>

\* lines 228-234
SimpleStep ==
    /\ pc = "simple"
    /\ result' = ReplacePlaceholders(result, data, "simple")
    /\ pc' = "cleanup"
    /\ UNCHANGED <<template, data, loopCount, ifCount, calls, disk, gen>>

\* lines 237-239: the cleanup, and the return
CleanupStep ==
    /\ pc = "cleanup"
    /\ result' = Sanitize(result)
    /\ pc' = "done"
    /\ UNCHANGED <<template, data, loopCount, ifCount, calls, disk, gen>>

Next ==
    \/ EachScan
    \/ EachDone
    \/ IfPass
    \/ IfDone
    \/ IndexFieldStep
    \/ IndexStep
    \/ SimpleStep
    \/ CleanupStep

Spec == Init /\ [][Next]_vars

\* the call has returned: result is the returned string
Returned == pc = "done"

\* the document's value at a one-segment root key (undefined when absent)
RootValue(key) == GetProp(data, key)

(***************************************************************************)
(* Properties.                                                             *)
(***************************************************************************)
\* the truthiness rule as the specification words it: everything but
\* undefined, null, the empty string and the empty sequence
SpecTruthy(value) ==
    /\ value.t \notin {"undefined", "null"}
    /\ ~(value.t = "string" /\ value.v = <<>>)
    /\ ~(value.t = "array" /\ value.v = <<>>)

\* the branch a well-nested conditional selects
Pick(value, thenText, elseText) ==
    IF SpecTruthy(value) THEN thenText ELSE elseText

\* C1: the returned string contains no opening token {{, whatever the
\* template and the document were.
C1_NoPlaceholderSyntax == Returned => ~Includes(result, LOpen)

\* C2: {{#if a}}{{#if b}}X{{else}}Y{{/if}}{{else}}Z{{/if}} renders the branch
\* proper nesting selects: X or Y by b when a is truthy, Z when a is falsy.
C2_NestedIfElse ==
    (Returned /\ template = TplNested) =>
        result = Pick(RootValue(<<"a">>),
                      Pick(RootValue(<<"b">>), <<"X">>, <<"Y">>), <<"Z">>)

\* C3: {{#if k}}A{{else}}B{{/if}} renders A iff the value bound to k is none
\* of undefined/absent, null, the empty string, the empty sequence, and B
\* otherwise; 0, "false" and boolean false render A.
C3_TruthinessLaw ==
    (Returned /\ template = TplTruth) =>
        result = Pick(RootValue(<<"k">>), <<"A">>, <<"B">>)

\* C3 witness: k is bound to the number 0 and the call returned A.
C3_Witness ==
    /\ Returned
    /\ template = TplTruth
    /\ RootValue(<<"k">>).t = "number"
    /\ RootValue(<<"k">>).v = 0
    /\ result = <<"A">>

\* the text of field n of a non-null element (empty when it has none)
FieldText(item) ==
    IF item.t = "object" /\ HasKey(item, <<"n">>) THEN GetKey(item, <<"n">>).v
    ELSE <<>>

\* C4: one each block over a sequence of N >= 1 elements renders exactly N
\* copies of the body in sequence order, the i-th against the i-th element
\* with {{@index}} replaced by i (counted from 0): [i:n_i] for the body
\* [{{@index}}:{{this.n}}], and N dashes between < and > for the body "-".
C4_LoopCountLaw ==
    (Returned /\ template \in {TplEach, TplEachPlain}
       /\ RootValue(<<"k">>).t = "array"
       /\ Len(RootValue(<<"k">>).v) >= 1) =>
        LET items == RootValue(<<"k">>).v
        IN IF template = TplEach
           THEN result = Concat([i \in DOMAIN items |->
                                   <<"[">> \o NatToStr(i - 1) \o <<":">>
                                     \o FieldText(items[i]) \o <<"]">>])
           ELSE result = <<"<">> \o [i \in DOMAIN items |-> "-"] \o <<">">>

\* C4 witness: a two-element sequence rendered as [0:yz][1:x].
C4_Witness ==
    /\ Returned
    /\ template = TplEach
    /\ Len(RootValue(<<"k">>).v) = 2
    /\ result = <<"[", "0", ":", "y", "z", "]", "[", "1", ":", "x", "]">>

\* C5: a render call never raises an error, also when a sequence holds null,
\* strings or numbers instead of mappings.
C5_NeverThrows == pc # "threw"

\* the templates whose each opener is never closed
UnclosedTemplates == {TplUnclosed, TplUnclosedPlain}

\* C6: a template with an unclosed each opener raises no error and its
\* output contains no {{ token, whatever tokens follow the opener.
C6_UnclosedEach ==
    template \in UnclosedTemplates =>
        /\ pc # "threw"
        /\ Returned => ~Includes(result, LOpen)

\* C7: the cleanup is idempotent: applying it to the returned (already
\* cleaned) string changes nothing.
C7_SanitizeIdempotent == Returned => Sanitize(result) = result

\* the only element of the sequence bound to k
OnlyItem == RootValue(<<"k">>).v[1]

\* the rendering of {{#if a}}X{{/if}} {{#if b}}Y{{else}}Z{{/if}} when every
\* else is paired with the block that encloses it
SiblingText(a, b) ==
    Pick(a, <<"X">>, <<>>) \o <<" ">> \o Pick(b, <<"Y">>, <<"Z">>)

\* C8: in {{#if a}}X{{/if}} {{#if b}}Y{{else}}Z{{/if}} the else belongs to
\* the second block only: X iff a is truthy, then Y iff b is truthy and Z
\* otherwise; the same for this.-scoped siblings inside a loop body.
C8_SiblingElse ==
    /\ (Returned /\ template = TplSibling) =>
          result = SiblingText(RootValue(<<"a">>), RootValue(<<"b">>))
    /\ (Returned /\ template = TplSiblingThis) =>
          result = SiblingText(GetProp(OnlyItem, <<"a">>),
                               GetProp(OnlyItem, <<"b">>))

\* C9: {{#if a}}P{{#if b}}X{{/if}}Q{{/if}} renders nothing when a is falsy,
\* and P, X iff b is truthy, Q when a is truthy.
C9_SimpleIfRemoved ==
    (Returned /\ template = TplSimpleNested) =>
        result = Pick(RootValue(<<"a">>),
                      <<"P">> \o Pick(RootValue(<<"b">>), <<"X">>, <<>>)
                        \o <<"Q">>,
                      <<>>)

\* C10: an if over the dotted path c.p is decided by the value the path
\* resolves to: X iff truthy, else Y (nothing without else).
C10_DottedIf ==
    /\ (Returned /\ template = TplDotted) =>
          result = Pick(getNestedValue(data, <<"c", ".", "p">>), <<"X">>, <<"Y">>)
    /\ (Returned /\ template = TplDottedSimple) =>
          result = Pick(getNestedValue(data, <<"c", ".", "p">>), <<"X">>, <<>>)

\* the value is a sequence with at least one element
NonEmptySeq(value) == value.t = "array" /\ Len(value.v) >= 1

\* C11: an each block whose path resolves to anything but a non-empty
\* sequence (absent, null, string, number, boolean, mapping, empty sequence)
\* contributes nothing to the output, delimiters and body included, and no
\* error is raised: <{{#each k}}-{{/each}}> and <{{#each c.p}}-{{/each}}>
\* render <>, and {{#each k}}[{{@index}}:{{this.n}}]{{/each}} renders nothing.
C11_NonSequenceEach ==
    /\ (template \in {TplEach, TplEachPlain}
          /\ ~NonEmptySeq(RootValue(<<"k">>))) =>
          /\ pc # "threw"
          /\ Returned =>
                result = IF template = TplEach THEN <<>> ELSE <<"<", ">">>
    /\ (template = TplEachDotted
          /\ ~NonEmptySeq(getNestedValue(data, <<"c", ".", "p">>))) =>
          /\ pc # "threw"
          /\ Returned => result = <<"<", ">">>

\* the part of C11 about paths of one segment
C11_RootKeyEach ==
    (template \in {TplEach, TplEachPlain}
       /\ ~NonEmptySeq(RootValue(<<"k">>))) =>
       /\ pc # "threw"
       /\ Returned =>
             result = IF template = TplEach THEN <<>> ELSE <<"<", ">">>

\* the output the round-trip scenario names, trailing space included
RoundTripOut ==
    <<"H", "e", "l", "l", "o", " ", "A", "c", "e", " ", "P", "l", "u", "m",
      "b", "i", "n", "g", ".", " ", "-", " ", "R", "e", "p", "a", "i",
      "r", " ", "-", " ", "I", "n", "s", "t", "a", "l", "l", " ">>

\* C12: for {name: "Ace Plumbing", services: [{name: "Repair"}, {name:
\* "Install"}]} the template Hello {{name}}. {{#each services}}- {{this.name}}
\* {{/each}} renders exactly "Hello Ace Plumbing. - Repair - Install ".
C12_RoundTrip ==
    (Returned /\ template = TplRoundTrip /\ data = RoundTripDoc) =>
        result = RoundTripOut

\* C12 witness: the scenario's call returned the scenario's output.
C12_Witness ==
    /\ Returned
    /\ template = TplRoundTrip
    /\ data = RoundTripDoc
    /\ result = RoundTripOut

\* what the indexed rule renders for a sequence and a position: the JSON
\* serialization of the element there, nothing when there is none
IndexedText(seq, n) ==
    IF seq.t = "array" /\ n < Len(seq.v) THEN JsonStringify(seq.v[n + 1])
    ELSE <<>>

\* C13: {{path.N}} is resolved by the indexed rule, never by the generic
\* one: it renders the JSON serialization of the element at position N of
\* the sequence at path; {{images.0}} over {images: ["a.png", "b.png"]}
\* renders "a.png" in quotes, and {{images}} the plain text a.png,b.png.
C13_IndexedRule ==
    /\ (Returned /\ template = TplIndexed) =>
          result = IndexedText(RootValue(KeyImages), 0)
    /\ (Returned /\ template = TplIndexedSecond) =>
          result = IndexedText(RootValue(KeyImages), 1)
    /\ (Returned /\ template = TplIndexedDotted) =>
          result = IndexedText(getNestedValue(data, <<"c", ".", "p">>), 0)
    /\ (Returned /\ template = TplIndexed /\ data = ImagesDoc) =>
          result = JsonQuote(TxtAPng)
    /\ (Returned /\ template = TplPlainSeq /\ data = ImagesDoc) =>
          result = TxtAPng \o <<",">> \o TxtBPng

\* the scenario of C13 alone: the quoted first element, the plain sequence
C13_ImagesScenario ==
    /\ (Returned /\ template = TplIndexed /\ data = ImagesDoc) =>
          result = <<"\"", "a", ".", "p", "n", "g", "\"">>
    /\ (Returned /\ template = TplPlainSeq /\ data = ImagesDoc) =>
          result = TxtAPng \o <<",">> \o TxtBPng

\* the natural text of a value that is neither a sequence nor a mapping
ScalarText(value) ==
    CASE value.t = "string" -> value.v
      [] value.t = "number" -> IntToStr(value.v)
      [] value.t = "boolean" ->
            IF value.v THEN <<"t", "r", "u", "e">>
            ELSE <<"f", "a", "l", "s", "e">>
      [] OTHER -> <<>>

\* the text a bare placeholder stands for: nothing for undefined and null,
\* the elements joined by commas for a sequence, [object Object] for a
\* mapping, the natural text otherwise
NaturalText(value) ==
    CASE value.t = "array" ->
            JoinWith([i \in DOMAIN value.v |-> ScalarText(value.v[i])], <<",">>)
      [] value.t = "object" ->
            <<"[", "o", "b", "j", "e", "c", "t", " ", "O", "b", "j", "e", "c", "t",
              "]">>
      [] OTHER -> ScalarText(value)

\* C14: at root scope {{path}} renders nothing when the path resolves to
\* undefined or null and the natural text of the value otherwise: 0 renders
\* 0, false renders false, the empty string renders nothing.
C14_BarePlaceholder ==
    /\ (Returned /\ template = TplBare) =>
          result = NaturalText(RootValue(<<"k">>))
    /\ (Returned /\ template = TplBareDotted) =>
          result = <<"[">> \o NaturalText(getNestedValue(data, <<"c", ".", "p">>))
                     \o <<"]">>

\* the part of C14 about values whose text holds no placeholder syntax
C14_PlainValues ==
    /\ (Returned /\ template = TplBare
          /\ ~Includes(NaturalText(RootValue(<<"k">>)), LOpen)) =>
          result = NaturalText(RootValue(<<"k">>))
    /\ (Returned /\ template = TplBareDotted) =>
          result = <<"[">> \o NaturalText(getNestedValue(data, <<"c", ".", "p">>))
                     \o <<"]">>

\* C15: inside a loop body {{this.n}} and {{this.n.m}} render the element's
\* value by the rule of the bare placeholder: nothing for undefined and
\* null, the natural text for every other value, 0 and false included.
C15_ThisCoercion ==
    /\ (Returned /\ template = TplThisField) =>
          result = <<"[">> \o NaturalText(GetProp(OnlyItem, <<"n">>)) \o <<"]">>
    /\ (Returned /\ template = TplThisSubField) =>
          result = <<"[">>
                     \o NaturalText(WalkParts(OnlyItem, <<<<"n">>, <<"m">>>>))
                     \o <<"]">>

(***************************************************************************)
(* renderTemplate as a function of its two arguments, and a caller that    *)
(* calls it time after time.                                               *)
(***************************************************************************)
RECURSIVE EachLoopFrom(_, _, _)
\* the each while loop from a given count on (lines 23-72)
EachLoopFrom(r, doc, count) ==
    IF r.threw THEN r
    ELSE IF Includes(r.s, LEach) /\ count < MaxEachScans
         THEN EachLoopFrom(EachReplace(r.s, doc), doc, count + 1)
         ELSE r

RECURSIVE IfLoopFrom(_, _, _)
\* the conditional while loop from a given count on (lines 136-207)
IfLoopFrom(s, doc, count) ==
    IF Includes(s, LIf) /\ count < MaxIfPasses
    THEN IfLoopFrom(IfPassResult(s, doc), doc, count + 1)
    ELSE s

\* the stages of a call, each on the one-element set that holds the value
\* the stage before it left (the error once one was raised)
EachStage(rs, doc) == {EachLoopFrom(r, doc, 0) : r \in rs}

IfStage(rs, doc) ==
    {IF r.threw THEN r ELSE Ok(IfLoopFrom(r.s, doc, 0)) : r \in rs}

\* one of the replaces of lines 210-234
PlaceholderStage(rs, doc, rx) ==
    {IF r.threw THEN r ELSE Ok(ReplacePlaceholders(r.s, doc, rx)) : r \in rs}

\* line 237
CleanupStage(rs) == {IF r.threw THEN r ELSE Ok(Sanitize(r.s)) : r \in rs}

\* lines 209-239: the three placeholder replaces and the cleanup
FinishRender(rs, doc) ==
    CleanupStage(
        PlaceholderStage(
            PlaceholderStage(
                PlaceholderStage(rs, doc, "indexField"), doc, "index"),
            doc, "simple"))

\* renderTemplate(template, data): the returned string, or the error
renderTemplate(tpl, doc) ==
    CHOOSE r \in FinishRender(IfStage(EachStage({Ok(tpl)}, doc), doc), doc) : TRUE

\* the calls of the caller
CallInputs ==
    Cases({TplTruth}, {Obj(<<KV(<<"k">>, v)>>) : v \in {Num(0), Str(<<>>)}})
      \cup Cases({TplEach, TplEachPlain, TplUnclosed},
                 {Obj(<<KV(<<"k">>, Arr(items))>>) :
                     items \in {<<>>, <<Null>>,
                                <<Obj(<<KV(<<"n">>, Str(<<"x">>))>>)>>}})
      \cup Cases({TplDotted, TplDottedSimple}, DottedDocs)
      \cup Cases({TplRoundTrip, TplIndexed}, RoundTripDocs \cup {ImagesDoc})

CallInit ==
    /\ \E inp \in CallInputs :
          /\ template = inp.template
          /\ data = inp.data
          /\ result = inp.template
    /\ pc = "each"
    /\ loopCount = 0
    /\ ifCount = 0
    /\ calls = 1
    /\ disk = NoFiles
    /\ gen = GenIdle

\* a further call that finds the counters where the call before left them
InvokeKeepingCounters ==
    /\ pc \in {"done", "threw"}
    /\ calls < MaxCalls
    /\ \E inp \in CallInputs :
          /\ template' = inp.template
          /\ data' = inp.data
          /\ result' = inp.template
    /\ pc' = "each"
    /\ calls' = calls + 1
    /\ UNCHANGED <<loopCount, ifCount, disk, gen>>

\* a further call once the call before has returned or thrown: result,
\* loopCount and ifCount are locals of the call (lines 9, 23, 136)
Invoke ==
    /\ pc \in {"done", "threw"}
    /\ calls < MaxCalls
    /\ \E inp \in CallInputs :
          /\ template' = inp.template
          /\ data' = inp.data
          /\ result' = inp.template
    /\ pc' = "each"
    /\ loopCount' = 0
    /\ ifCount' = 0
    /\ calls' = calls + 1
    /\ UNCHANGED <<disk, gen>>

CallNext ==
    \/ EachScan
    \/ EachDone
    \/ IfPass
    \/ IfDone
    \/ IndexFieldStep
    \/ IndexStep
    \/ SimpleStep
    \/ CleanupStep
    \/ Invoke

CallSpec == CallInit /\ [][CallNext]_vars

\* C16: whatever calls came before, a call returns the string (or raises
\* the error) that renderTemplate gives for its template and document alone.
C16_CallsIndependent ==
    /\ Returned => Ok(result) = renderTemplate(template, data)
    /\ pc = "threw" => renderTemplate(template, data).threw

\* C16 witness: the last of the caller's calls has returned the expansion
\* of its each block.
C16_Witness ==
    /\ Returned
    /\ calls = MaxCalls
    /\ template = TplEachPlain
    /\ result = <<"<", "-", ">">>

\* C17: no step of a render call changes the template or the document:
\* after the call both are what they were before it, also for templates
\* with loops and conditionals over the document.
C17_InputsUnchanged == [][template' = template /\ data' = data]_vars

\* C17 witness: a call with a loop and two conditionals over the elements
\* of the document's sequence has returned.
C17_Witness ==
    /\ Returned
    /\ template = TplSiblingThis
    /\ data \in FlagItemDocs
    /\ loopCount = 1

(***************************************************************************)
(* Termination.                                                            *)
(***************************************************************************)
RECURSIVE NestedPassesOf(_, _, _)
\* nestedCount when the while loop of processNestedConditionals ends
NestedPassesOf(processed, doc, nestedCount) ==
    IF Includes(processed, LIf) /\ nestedCount < MaxNestedPasses
    THEN NestedPassesOf(NestedRound(processed, doc), doc, nestedCount + 1)
    ELSE nestedCount

\* the nested resolutions the next conditional pass starts: one for each
\* if/else match, on the branch it selects
NestedStarts(doc, ms) == {ChosenBranch(ms[k], doc) : k \in DOMAIN ms}

\* the passes each of them takes
NestedPassCounts(s, doc) ==
    {NestedPassesOf(b, doc, 0) : b \in NestedStarts(doc, FindAll(s, 1, "ifElse"))}

\* the call is over: it returned or it raised
Finished == pc \in {"done", "threw"}

\* the statements that follow the two loops, the return included
TailSteps == <<"indexField", "index", "simple", "cleanup">>

\* the most steps a call can still take
StepsLeft ==
    CASE pc = "each" ->
            (MaxEachScans - loopCount) + 1 + MaxIfPasses + 1 + Len(TailSteps)
      [] pc = "if" -> (MaxIfPasses - ifCount) + 1 + Len(TailSteps)
      [] pc \in {"done", "threw"} -> 0
      [] OTHER ->
            Len(TailSteps) + 1
              - (CHOOSE i \in DOMAIN TailSteps : TailSteps[i] = pc)

\* the ceilings of the three loops
WithinCeilings ==
    /\ loopCount <= MaxEachScans
    /\ ifCount <= MaxIfPasses
    /\ pc = "if" =>
          \A n \in NestedPassCounts(result, data) : n <= MaxNestedPasses

\* some step of Next can be taken: the conditions of its actions (what an
\* action asks of the next state is an assignment, which can always be met)
CanStep ==
    \/ pc = "each" /\ EachGuard
    \/ pc = "each" /\ ~EachGuard
    \/ pc = "if" /\ IfGuard
    \/ pc = "if" /\ ~IfGuard
    \/ \E i \in DOMAIN TailSteps : pc = TailSteps[i]

\* C18: every call ends, the each loop after at most 10 scans, the
\* conditional loop after at most 10 passes and every resolution of nested
\* conditionals after at most 5 passes, also when a directive never closes
\* and a pass changes nothing: a call that is not over can take a step, and
\* every step leaves fewer steps to take.
C18_Terminates ==
    /\ [](WithinCeilings /\ StepsLeft >= 0 /\ (Finished \/ CanStep))
    /\ [][StepsLeft' < StepsLeft]_vars

\* C18 witness: a call whose each opener never closes has used its ten
\* scans and returned.
C18_Witness ==
    /\ Returned
    /\ template \in UnclosedTemplates
    /\ loopCount = MaxEachScans

\* a call whose conditional passes changed nothing has used its ten passes,
\* and one whose nested resolution changed nothing has used its five
C18_IfCeilingReached == Returned /\ template = TplDotted /\ ifCount = MaxIfPasses

C18_NestedCeilingReached ==
    /\ pc = "if"
    /\ MaxNestedPasses \in NestedPassCounts(result, data)

(***************************************************************************)
(* generateSlug (src/generator/template-engine.js, lines 1032-1038).       *)
(***************************************************************************)
UpperChars ==
    <<"A", "B", "C", "D", "E", "F", "G", "H", "I", "J", "K", "L", "M",
      "N", "O", "P", "Q", "R", "S", "T", "U", "V", "W", "X", "Y", "Z">>

LowerChars ==
    <<"a", "b", "c", "d", "e", "f", "g", "h", "i", "j", "k", "l", "m",
      "n", "o", "p", "q", "r", "s", "t", "u", "v", "w", "x", "y", "z">>

\* [a-z0-9]
SlugCh == {LowerChars[i] : i \in DOMAIN LowerChars} \cup DigitCh

\* the longest slug
SlugLimit == 50

LowerOf(c) ==
    IF \E i \in DOMAIN UpperChars : UpperChars[i] = c
    THEN LowerChars[CHOOSE i \in DOMAIN UpperChars : UpperChars[i] = c]
    ELSE c

\* name.toLowerCase()
toLowerCase(s) == [i \in DOMAIN s |-> LowerOf(s[i])]

RECURSIVE DashRuns(_, _)
\* .replace(/[^a-z0-9]+/g, '-') from position i on
DashRuns(s, i) ==
    IF i > Len(s) THEN <<>>
    ELSE IF s[i] \in SlugCh THEN <<s[i]>> \o DashRuns(s, i + 1)
    ELSE <<"-">> \o DashRuns(s, SkipWhile(s, i, {s[j] : j \in DOMAIN s} \ SlugCh))

RECURSIVE DropTrailing(_)
DropTrailing(s) ==
    IF s # <<>> /\ s[Len(s)] = "-" THEN DropTrailing(SubSeq(s, 1, Len(s) - 1))
    ELSE s

\* .replace(/^-+|-+$/g, '')
TrimDashes(s) == DropTrailing(SubSeq(s, SkipWhile(s, 1, {"-"}), Len(s)))

\* .substring(0, 50)
Truncate(s) == SubSeq(s, 1, Min(Len(s), SlugLimit))

generateSlug(name) == Truncate(TrimDashes(DashRuns(toLowerCase(name), 1)))

(***************************************************************************)
(* The site generator: generateWebsite (src/unnamed/part_000), with the    *)
(* step of the scraper that saves the data file it reads and the page      *)
(* builder it calls.  The file system maps the paths of the files that     *)
(* exist to their contents; a call of generateWebsite takes one step per   *)
(* group of writes.                                                        *)
(***************************************************************************)
\* Latest generation date.
MaxDates == 2

Dates == 1..MaxDates

\* directories: a site's directory, the repository root, a directory the
\* caller names
SiteDir(slug) == [root |-> "sites", name |-> slug]
RepoDir == [root |-> "repo", name |-> <<>>]
PreviewDir == [root |-> "out", name |-> <<"p">>]

\* the outputDir argument left out
NoDir == [root |-> "none", name |-> <<>>]

\* path.join(dir, file)
PathOf(dir, file) == [dir |-> dir, file |-> file]

\* .scraped-data/<name>.json
DataPath(name) == [dir |-> [root |-> "scraped", name |-> name], file |-> "json"]

Exists(p) == p \in DOMAIN disk

\* fs.writeFile / fs.writeJson / fs.copy: the file is created or replaced
Write(dk, p, content) ==
    [q \in DOMAIN dk \cup {p} |-> IF q = p THEN content ELSE dk[q]]

\* the templates of templates/base (stand-ins: the files are not part of
\* the sources)

\* <h1>{{businessName}}</h1>{{#if phone}}<p>{{phone}}</p>{{/if}}
HtmlTemplate ==
    <<"<", "h", "1", ">", "{", "{", "b", "u", "s", "i", "n", "e", "s", "s",
      "N", "a", "m", "e", "}", "}", "<", "/", "h", "1", ">", "{", "{",
      "#", "i", "f", " ", "p", "h", "o", "n", "e", "}", "}", "<", "p",
      ">", "{", "{", "p", "h", "o", "n", "e", "}", "}", "<", "/", "p",
      ">", "{", "{", "/", "i", "f", "}", "}">>


\* /* {{siteBasePath}} */
CssTemplate ==
    <<"/", "*", " ", "{", "{", "s", "i", "t", "e", "B", "a", "s", "e", "P",
      "a", "t", "h", "}", "}", " ", "*", "/">>


\* // js
JsTemplate ==
    <<"/", "/", " ", "j", "s">>


\* the businesses: two of the same name with different phones, and a third
TxtBobCafe ==
    <<"B", "o", "b", " ", "C", "a", "f", "e">>


Businesses ==
    {[name |-> TxtAcePlumbing, phone |-> <<"1">>, logo |-> FALSE],
     [name |-> TxtAcePlumbing, phone |-> <<"2">>, logo |-> TRUE],
     [name |-> TxtBobCafe, phone |-> <<"3">>, logo |-> FALSE]}

\* the data the scraper extracts for a business (lines 566-585 of
\* template-engine.js): the fields the generator reads
ExtractedData(b) ==
    [businessName |-> b.name,
     businessSlug |-> generateSlug(b.name),
     phone |-> b.phone,
     logoPath |-> b.logo]

\* the names a caller passes for dataFile
DataNames == {generateSlug(b.name) : b \in Businesses}

TxtBusinessName ==
    <<"B", "u", "s", "i", "n", "e", "s", "s", " ", "N", "a", "m", "e">>

TxtSitePrefix ==
    <<"/", "s", "i", "t", "e", "/">>

KeyBusinessName ==
    <<"b", "u", "s", "i", "n", "e", "s", "s", "N", "a", "m", "e">>

KeyBusinessSlug ==
    <<"b", "u", "s", "i", "n", "e", "s", "s", "S", "l", "u", "g">>

KeySiteBasePath ==
    <<"s", "i", "t", "e", "B", "a", "s", "e", "P", "a", "t", "h">>

KeyPhone ==
    <<"p", "h", "o", "n", "e">>

KeyLogo ==
    <<"l", "o", "g", "o">>

\* lines 53-81: the keys of templateData the templates above use
TemplateData(d, businessSlug) ==
    Obj(<<KV(KeyBusinessName,
             Str(IF d.businessName # <<>> THEN d.businessName
                 ELSE TxtBusinessName)),
          KV(KeyBusinessSlug, Str(businessSlug)),
          KV(KeySiteBasePath, Str(TxtSitePrefix \o businessSlug)),
          KV(KeyPhone, IF d.phone # <<>> THEN Str(d.phone) ELSE Null),
          KV(KeyLogo, Bool(d.logoPath))>>)

\* lines 116-158: the customer record of this generation
FreshCustomer(d, businessSlug, date) ==
    [customerId |-> businessSlug,
     businessName |-> IF d.businessName # <<>> THEN d.businessName
                      ELSE businessSlug,
     status |-> "pending",
     contact |-> [phone |-> d.phone, contactedDate |-> "null",
                  contactMethod |-> "null", notes |-> "null"],
     website |-> [localUrl |-> TxtSitePrefix \o businessSlug,
                  deployed |-> FALSE],
     generated |-> [date |-> date, hasLogo |-> d.logoPath],
     outreach |-> [sentDate |-> "null", interested |-> "null"],
     billing |-> [monthlyRate |-> "null", active |-> FALSE],
     notes |-> ""]

\* line 163: { ...existing, ...customer, generated: customer.generated }
MergeCustomer(existing, customer) ==
    [k \in DOMAIN existing \cup DOMAIN customer |->
        IF k = "generated" THEN customer.generated
        ELSE IF k \in DOMAIN customer THEN customer[k]
        ELSE existing[k]]

\* the site folders that hold a customer.json (build-index.js, lines 24-34)
SiteFolders(dk) ==
    {p.dir : p \in {q \in DOMAIN dk :
                       q.dir.root = "sites" /\ q.file = "customer.json"}}

\* the entries of the portfolio page (build-index.js, lines 35-46)
SiteEntries(dk) ==
    {[slug |-> dir.name,
      name |-> dk[PathOf(dir, "customer.json")].businessName,
      status |-> dk[PathOf(dir, "customer.json")].status,
      generatedDate |-> dk[PathOf(dir, "customer.json")].generated.date] :
        dir \in SiteFolders(dk)}

\* the variables of a render call
renderVars == <<template, data, result, pc, loopCount, ifCount, calls>>

\* no render call of its own is in progress while the generator runs
SiteInit ==
    /\ template = <<>>
    /\ data = Undef
    /\ result = <<>>
    /\ pc = "done"
    /\ loopCount = 0
    /\ ifCount = 0
    /\ calls = 0
    /\ disk = NoFiles
    /\ gen = GenIdle

\* no call of generateWebsite is in progress
GenReady == gen.pc \in {"idle", "threw"}

\* the scraper saves the data of a business under its slug
\* (template-engine.js, lines 588-593)
SaveExtracted ==
    /\ GenReady
    /\ \E b \in Businesses :
          disk' = Write(disk, DataPath(ExtractedData(b).businessSlug),
                        ExtractedData(b))
    /\ UNCHANGED <<gen, renderVars>>

\* lines 19-49: the data file is loaded and the directories are chosen
StartedCall(dataFile, outputDir, d, businessSlug) ==
    [pc |-> "write", data |-> d, businessSlug |-> businessSlug,
     customerDir |-> SiteDir(businessSlug),
     siteDir |-> IF outputDir = NoDir THEN SiteDir(businessSlug)
                 ELSE outputDir]

GenStart ==
    /\ GenReady
    /\ \E dataFile \in DataNames, outputDir \in {NoDir, PreviewDir} :
          IF ~Exists(DataPath(dataFile))
          THEN gen' = [pc |-> "threw"]
          ELSE gen' = StartedCall(dataFile, outputDir, disk[DataPath(dataFile)],
                         IF disk[DataPath(dataFile)].businessSlug # <<>>
                         THEN disk[DataPath(dataFile)].businessSlug
                         ELSE dataFile)
    /\ UNCHANGED <<disk, renderVars>>

\* the three files of lines 96-98
WriteSite(dk, siteDir, html, css, js) ==
    Write(Write(Write(dk, PathOf(siteDir, "index.html"), html),
                PathOf(siteDir, "styles.css"), css),
          PathOf(siteDir, "script.js"), js)

\* lines 83-98: the templates are rendered and the files written
GenWrite ==
    /\ gen.pc = "write"
    /\ \E templateData \in {TemplateData(gen.data, gen.businessSlug)} :
          \E rendered \in {[t \in {HtmlTemplate, CssTemplate} |->
                               renderTemplate(t, templateData)]} :
             IF rendered[HtmlTemplate].threw \/ rendered[CssTemplate].threw
             THEN /\ gen' = [pc |-> "threw"]
                  /\ disk' = disk
             ELSE /\ gen' = [gen EXCEPT !.pc = "logo"]
                  /\ disk' = WriteSite(disk, gen.siteDir,
                                       rendered[HtmlTemplate].s,
                                       rendered[CssTemplate].s, JsTemplate)
    /\ UNCHANGED renderVars

\* lines 102-108: the logo is copied when the data names one
GenLogo ==
    /\ gen.pc = "logo"
    /\ disk' = IF gen.data.logoPath
               THEN Write(disk, PathOf(gen.siteDir, "assets/logo"),
                          gen.data.businessName)
               ELSE disk
    /\ gen' = [gen EXCEPT !.pc = "data"]
    /\ UNCHANGED renderVars

\* lines 110-112
GenSaveData ==
    /\ gen.pc = "data"
    /\ disk' = Write(disk, PathOf(gen.customerDir, "data/scraped-data.json"),
                     gen.data)
    /\ gen' = [gen EXCEPT !.pc = "customer"]
    /\ UNCHANGED renderVars

\* the record line 166 writes
CustomerToWrite(dk, customerFile, customer) ==
    IF customerFile \in DOMAIN dk THEN MergeCustomer(dk[customerFile], customer)
    ELSE customer

\* lines 114-166
GenSaveCustomer ==
    /\ gen.pc = "customer"
    /\ \E date \in Dates :
          disk' = Write(disk, PathOf(gen.customerDir, "customer.json"),
                        CustomerToWrite(disk,
                            PathOf(gen.customerDir, "customer.json"),
                            FreshCustomer(gen.data, gen.businessSlug, date)))
    /\ gen' = [gen EXCEPT !.pc = "index"]
    /\ UNCHANGED renderVars

\* lines 169-190: the portfolio page is rebuilt and the call returns
GenBuildIndex ==
    /\ gen.pc = "index"
    /\ disk' = Write(disk, PathOf(RepoDir, "sites.html"), SiteEntries(disk))
    /\ gen' = GenIdle
    /\ UNCHANGED renderVars

\* the tracking values an operator records: a status, the dates of the
\* contact and the outreach, a rate, notes, and the time of the status
Tracked(r) ==
    [k \in DOMAIN r \cup {"statusUpdated"} |->
        CASE k = "status" -> "contacted"
          [] k = "contact" -> [r.contact EXCEPT !.contactedDate = "d1",
                                                !.contactMethod = "phone"]
          [] k = "outreach" -> [r.outreach EXCEPT !.sentDate = "d1"]
          [] k = "billing" -> [r.billing EXCEPT !.monthlyRate = "50"]
          [] k = "notes" -> "called"
          [] k = "statusUpdated" -> "d1"
          [] OTHER -> r[k]]

\* between two generations the operator tracks outreach and responses in
\* the customer.json of a site
TrackCustomer ==
    /\ GenReady
    /\ \E dir \in SiteFolders(disk) :
          disk' = Write(disk, PathOf(dir, "customer.json"),
                        Tracked(disk[PathOf(dir, "customer.json")]))
    /\ UNCHANGED <<gen, renderVars>>

SiteNext ==
    \/ SaveExtracted
    \/ TrackCustomer
    \/ GenStart
    \/ GenWrite
    \/ GenLogo
    \/ GenSaveData
    \/ GenSaveCustomer
    \/ GenBuildIndex

SiteSpec == SiteInit /\ [][SiteNext]_vars

\* the files of a directory, with their contents
FilesIn(dk, dir) == [p \in {q \in DOMAIN dk : q.dir = dir} |-> dk[p]]

\* a site has been generated in the directory
SiteGenerated(dir) ==
    /\ Exists(PathOf(dir, "customer.json"))
    /\ Exists(PathOf(dir, "data/scraped-data.json"))

\* the data of the business the site in the directory was generated for
SiteData(dir) == disk[PathOf(dir, "data/scraped-data.json")]

\* a call of generateWebsite is in progress
GenRunning == ~GenReady

\* the site directories of the businesses
SiteDirs == {SiteDir(generateSlug(b.name)) : b \in Businesses}

\* C19: once a site has been generated, no step of a generateWebsite call
\* for a different business changes a file of the site's directory.
C19_SiteIsolation ==
    [][\A dir \in SiteDirs :
          (SiteGenerated(dir) /\ GenRunning /\ gen.data # SiteData(dir)) =>
              FilesIn(disk', dir) = FilesIn(disk, dir)]_vars

\* the part of C19 about businesses whose slugs differ
C19_OtherSlugs ==
    [][\A dir \in SiteDirs :
          (SiteGenerated(dir) /\ GenRunning
             /\ SiteDir(gen.businessSlug) # dir) =>
              FilesIn(disk', dir) = FilesIn(disk, dir)]_vars

\* the number of blocks of a template of SequentialTemplates
BlocksOf(tpl) == Len(tpl) \div Len(EachBlockPlain)

\* the each loop is over: the call is at the conditional phase or beyond
PastEachLoop == pc \notin {"each", "threw"}

\* C20: every well-formed sequential each block over a non-empty sequence
\* is expanded, however many the template holds, more than 10 included:
\* once the each loop is over no {{#each is left, and the call returns one
\* copy of the body for each element and each block.
C20_AllBlocksExpanded ==
    /\ (template \in SequentialTemplates /\ PastEachLoop) =>
          /\ ~Includes(result, LEach)
          /\ Returned =>
                result = Repeat(<<"-">>, BlocksOf(template)
                                           * Len(RootValue(<<"k">>).v))
    /\ (template = TplEachDotted /\ PastEachLoop
          /\ NonEmptySeq(getNestedValue(data, <<"c", ".", "p">>))) =>
          /\ ~Includes(result, LEach)
          /\ Returned =>
                result = <<"<">>
                         \o Repeat(<<"-">>,
                                   Len(getNestedValue(data, <<"c", ".", "p">>).v))
                         \o <<">">>

\* the part of C20 about blocks whose path is one segment
C20_RootKeyBlocks ==
    (template \in SequentialTemplates /\ PastEachLoop) =>
       /\ ~Includes(result, LEach)
       /\ Returned =>
             result = Repeat(<<"-">>, BlocksOf(template)
                                        * Len(RootValue(<<"k">>).v))

\* a template of more than ten blocks has returned
C20_ElevenBlocks ==
    /\ Returned
    /\ template \in SequentialTemplates
    /\ BlocksOf(template) > MaxEachScans
    /\ loopCount = 1

(***************************************************************************)
(* The offsets of the collected matches during the reverse splices.        *)
(***************************************************************************)
\* s.substring(a - 1, b - 1) for a <= b: positions beyond the end of s are
\* taken as the end
Substring(s, a, b) == Sub(s, Min(a, Len(s) + 1), Min(b, Len(s) + 1))

\* s.substring(0, m.index) + replacement + s.substring(m.index + m.fullMatch.length)
SpliceOne(s, m, repl) ==
    Substring(s, 1, m.index) \o repl
      \o Substring(s, m.index + m.len, Len(s) + 1)

RECURSIVE TextAtSpliceForward(_, _, _, _)
\* the text at match k of a loop that runs from the first match to the last
TextAtSpliceForward(s, ms, repls, k) ==
    IF k = 1 THEN s
    ELSE SpliceOne(TextAtSpliceForward(s, ms, repls, k - 1),
                   ms[k - 1], repls[k - 1])

RECURSIVE TextAtSplice(_, _, _, _)
\* the text the loop holds when it reaches match k: the loop runs from the
\* last match down to the first
TextAtSplice(s, ms, repls, k) ==
    IF k = Len(ms) THEN s
    ELSE SpliceOne(TextAtSplice(s, ms, repls, k + 1), ms[k + 1], repls[k + 1])

\* the full text of match m, recorded when it was collected from s
FullMatch(s, m) == Substring(s, m.index, m.index + m.len)

\* every match still lies at its recorded index when the loop reaches it,
\* and the loop ends with the text SpliceReverse computes
OffsetsStayValid(s, ms, repls) ==
    /\ \A k \in DOMAIN ms :
          FullMatch(TextAtSplice(s, ms, repls, k), ms[k]) = FullMatch(s, ms[k])
    /\ ms # <<>> =>
          SpliceOne(TextAtSplice(s, ms, repls, 1), ms[1], repls[1])
            = SpliceReverse(s, ms, repls, Len(ms))

\* the replacements of the if/else matches (lines 156-170) and of the
\* matches of the other three loops (lines 98-103, 122-127, 195-204)
NestedRepls(ms, doc) ==
    [k \in DOMAIN ms |-> processNestedConditionals(ChosenBranch(ms[k], doc), doc)]

BranchRepls(ms, doc) == [k \in DOMAIN ms |-> ChosenBranch(ms[k], doc)]

\* the two loops of one round of processNestedConditionals
NestedRoundValid(processed, doc) ==
    /\ \E ms \in {FindAll(processed, 1, "ifElse")} :
          OffsetsStayValid(processed, ms, BranchRepls(ms, doc))
    /\ \E mid \in {NestedPass(processed, doc, "ifElse")} :
          \E ms \in {FindAll(mid, 1, "if")} :
             OffsetsStayValid(mid, ms, BranchRepls(ms, doc))

RECURSIVE NestedValid(_, _, _)
\* every round of one call of processNestedConditionals
NestedValid(processed, doc, nestedCount) ==
    IF Includes(processed, LIf) /\ nestedCount < MaxNestedPasses
    THEN /\ NestedRoundValid(processed, doc)
         /\ NestedValid(NestedRound(processed, doc), doc, nestedCount + 1)
    ELSE TRUE

\* C21: in the conditional pass about to run, every collected match is
\* spliced while the current text between its recorded index and index +
\* length still is its recorded full text, in the if/else loop, in the
\* simple-if loop and in the loops of the nested resolutions it starts.
C21_OffsetsValid ==
    (pc = "if" /\ IfGuard) =>
       /\ \E ms \in {FindAll(result, 1, "ifElse")} :
             /\ OffsetsStayValid(result, ms, NestedRepls(ms, data))
             /\ \A b \in NestedStarts(data, ms) : NestedValid(b, data, 0)
       /\ \E mid \in {IfElsePass(result, data)} :
             \E ms \in {SimpleIfMatches(mid)} :
                OffsetsStayValid(mid, ms, BranchRepls(ms, data))

\* C21 witness: a pass over two if/else blocks has run, and one over two
\* simple-if blocks
C21_Witness ==
    /\ pc = "if"
    /\ ifCount = 1
    /\ template = TplTwoIfElse
    /\ result = <<"Y", "-", "P", "P">>

C21_SimpleIfWitness ==
    /\ pc = "if"
    /\ ifCount = 1
    /\ template = TplTwoIf
    /\ result = <<"X", "-">>

\* field f of a sequence element (undefined when the element has none)
FieldF(item) ==
    IF item.t = "object" /\ HasKey(item, <<"f">>) THEN GetKey(item, <<"f">>)
    ELSE Undef

\* C22: {{#each k}}{{#if this.f}}A{{else}}B{{/if}}{{/each}} renders, for
\* each element in order, A when the element's field f is truthy by the
\* rule of the root scope and B otherwise, whatever the other elements hold.
C22_PerElementIf ==
    (Returned /\ template = TplIfThis) =>
        result = Concat([i \in DOMAIN RootValue(<<"k">>).v |->
                            Pick(FieldF(RootValue(<<"k">>).v[i]),
                                 <<"A">>, <<"B">>)])

\* C22 witness: two elements, the first with f = 0 and the second without
\* f, rendered as AB
C22_Witness ==
    /\ Returned
    /\ template = TplIfThis
    /\ RootValue(<<"k">>).v = <<Obj(<<KV(<<"f">>, Num(0))>>), Obj(<<>>)>>
    /\ result = <<"A", "B">>

\* the text of field r of a sequence element (empty when it has none)
FieldRText(item) ==
    IF item.t = "object" /\ HasKey(item, <<"r">>) THEN GetKey(item, <<"r">>).v
    ELSE <<>>

\* C23: in {{r}}|{{#each k}}{{r}}{{this.r}};{{/each}} every copy of the body
\* renders {{r}} as the root value of r, the text {{r}} renders before the
\* loop, also for an element that has a field r of its own; {{this.r}} is
\* the element's field.
C23_RootInLoop ==
    (Returned /\ template = TplRootInLoop) =>
        result = ScalarText(RootValue(<<"r">>)) \o <<"|">>
                   \o Concat([i \in DOMAIN RootValue(<<"k">>).v |->
                                ScalarText(RootValue(<<"r">>))
                                  \o FieldRText(RootValue(<<"k">>).v[i])
                                  \o <<";">>])

\* C23 witness: the root r is R and the element's own r is E
C23_Witness ==
    /\ Returned
    /\ template = TplRootInLoop
    /\ RootValue(<<"r">>) = Str(<<"R">>)
    /\ RootValue(<<"k">>).v = <<Obj(<<KV(<<"r">>, Str(<<"E">>))>>)>>
    /\ result = <<"R", "|", "R", "E", ";">>

(***************************************************************************)
(* The status tool: updateCustomerStatus (pipeline.js, lines 569-605).     *)
(* A customer record is a mapping; the records live in                     *)
(* customers/<id>/customer.json.  The time of a call is the number of the  *)
(* call.                                                                   *)
(***************************************************************************)
\* Most calls of updateCustomerStatus in a run.
MaxUpdates == 3

KeyStatus ==
    <<"s", "t", "a", "t", "u", "s">>

KeyStatusUpdated ==
    <<"s", "t", "a", "t", "u", "s", "U", "p", "d", "a", "t", "e", "d">>

KeyOutreach ==
    <<"o", "u", "t", "r", "e", "a", "c", "h">>

KeyResponseDate ==
    <<"r", "e", "s", "p", "o", "n", "s", "e", "D", "a", "t", "e">>

KeyNotes ==
    <<"n", "o", "t", "e", "s">>

TxtPending ==
    <<"p", "e", "n", "d", "i", "n", "g">>

TxtContacted ==
    <<"c", "o", "n", "t", "a", "c", "t", "e", "d">>

TxtInterested ==
    <<"i", "n", "t", "e", "r", "e", "s", "t", "e", "d">>

\* customers/<customerId>
CustomerDir(customerId) == [root |-> "customers", name |-> customerId]

CustomerFile(customerId) == PathOf(CustomerDir(customerId), "customer.json")

CustomerIds == {<<"a">>, <<"b">>}

\* target[key] = val
SetKey(o, key, val) ==
    IF HasKey(o, key)
    THEN Obj([i \in DOMAIN o.v |-> IF o.v[i].k = key THEN KV(key, val) ELSE o.v[i]])
    ELSE Obj(Append(o.v, KV(key, val)))

\* source[key] && typeof source[key] === 'object' && !Array.isArray(source[key])
IsPlainObject(value) == JsTruthy(value) /\ value.t = "object"

\* target[key] || {}
TargetOrEmpty(target, key) ==
    IF JsTruthy(GetProp(target, key)) THEN GetProp(target, key) ELSE Obj(<<>>)

RECURSIVE deepMergeFrom(_, _, _)
\* the for-in loop of deepMerge from the i-th key of source on
deepMergeFrom(target, source, i) ==
    IF i > Len(source.v) THEN target
    ELSE deepMergeFrom(
            IF IsPlainObject(source.v[i].v)
            THEN SetKey(target, source.v[i].k,
                        deepMergeFrom(TargetOrEmpty(target, source.v[i].k),
                                      source.v[i].v, 1))
            ELSE SetKey(target, source.v[i].k, source.v[i].v),
            source, i + 1)

\* lines 581-590
deepMerge(target, source) == deepMergeFrom(target, source, 1)

\* new Date().toISOString() at time now
Timestamp(now) == Str(<<"T">> \o NatToStr(now))

\* lines 595-597: the comparison reads the record after the merge
StampStatus(customer, updates, now) ==
    IF JsTruthy(GetProp(updates, KeyStatus))
       /\ GetProp(updates, KeyStatus) # GetProp(customer, KeyStatus)
    THEN SetKey(customer, KeyStatusUpdated, Timestamp(now))
    ELSE customer

\* lines 592-597: the record the call writes and returns
UpdatedCustomer(customer, updates, now) ==
    StampStatus(deepMerge(customer, updates), updates, now)

\* the updates a caller passes: a status, a status with a response date,
\* notes alone, nothing
StatusTexts == {TxtPending, TxtContacted, TxtInterested}

UpdateInputs ==
    {Obj(<<KV(KeyStatus, Str(s))>>) : s \in StatusTexts}
      \cup {Obj(<<KV(KeyStatus, Str(s)),
                  KV(KeyOutreach, Obj(<<KV(KeyResponseDate, Str(<<"d">>))>>))>>) :
               s \in StatusTexts}
      \cup {Obj(<<KV(KeyNotes, Str(<<"n">>))>>), Obj(<<>>)}

\* the records the runs start from: customer a, pending or contacted;
\* customer b has no record
StartRecords ==
    {Obj(<<KV(KeyBusinessName, Str(TxtAcePlumbing)), KV(KeyStatus, Str(s)),
           KV(KeyOutreach, Obj(<<KV(KeyResponseDate, Null)>>))>>) :
        s \in {TxtPending, TxtContacted}}

StatusInit ==
    /\ template = <<>>
    /\ data = Undef
    /\ result = <<>>
    /\ pc = "done"
    /\ loopCount = 0
    /\ ifCount = 0
    /\ calls = 0
    /\ \E r \in StartRecords : disk = Write(NoFiles, CustomerFile(<<"a">>), r)
    /\ gen = GenIdle

\* one call of updateCustomerStatus (lines 569-605): it throws when the
\* customer has no record, and writes the updated record otherwise
UpdateCustomerStatus ==
    /\ calls < MaxUpdates
    /\ calls' = calls + 1
    /\ \E customerId \in CustomerIds, updates \in UpdateInputs :
          IF ~Exists(CustomerFile(customerId))
          THEN /\ gen' = [pc |-> "threw", customerId |-> customerId,
                          updates |-> updates, now |-> calls']
               /\ disk' = disk
          ELSE /\ gen' = [pc |-> "returned", customerId |-> customerId,
                          updates |-> updates, now |-> calls']
               /\ disk' = Write(disk, CustomerFile(customerId),
                                UpdatedCustomer(disk[CustomerFile(customerId)],
                                                updates, calls'))
    /\ UNCHANGED <<template, data, result, pc, loopCount, ifCount>>

StatusNext == UpdateCustomerStatus

StatusSpec == StatusInit /\ [][StatusNext]_vars

\* the stored record of the customer of the last call, before and after it
RecordBefore == disk[CustomerFile(gen'.customerId)]
RecordAfter == disk'[CustomerFile(gen'.customerId)]

\* the update of the last call names a status other than the stored one
StatusChanges ==
    /\ HasKey(gen'.updates, KeyStatus)
    /\ GetProp(gen'.updates, KeyStatus) # GetProp(RecordBefore, KeyStatus)

\* C24: a call of updateCustomerStatus sets statusUpdated to the time of the
\* call when the status of the update differs from the status stored before
\* the call, and leaves statusUpdated as it was when it is the same.
C24_StatusStamped ==
    [][gen'.pc = "returned" =>
          IF StatusChanges
          THEN GetProp(RecordAfter, KeyStatusUpdated) = Timestamp(gen'.now)
          ELSE GetProp(RecordAfter, KeyStatusUpdated)
                 = GetProp(RecordBefore, KeyStatusUpdated)]_vars

\* what the calls do: the status is stored, statusUpdated is never set
C24_NeverStamped ==
    [][gen'.pc = "returned" =>
          /\ HasKey(gen'.updates, KeyStatus) =>
                GetProp(RecordAfter, KeyStatus) = GetProp(gen'.updates, KeyStatus)
          /\ ~HasKey(RecordAfter, KeyStatusUpdated)]_vars

\* a call changed the stored status from pending to contacted
C24_StatusChanged ==
    /\ gen.pc = "returned"
    /\ gen.customerId = <<"a">>
    /\ gen.updates = Obj(<<KV(KeyStatus, Str(TxtContacted))>>)
    /\ GetProp(disk[CustomerFile(<<"a">>)], KeyStatus) = Str(TxtContacted)
    /\ calls = 1


\* the customer record of the site a call is generating, before and after
\* the step that writes it
CustomerBefore == disk[PathOf(gen.customerDir, "customer.json")]
CustomerAfter == disk'[PathOf(gen.customerDir, "customer.json")]

\* the step of a call that writes customer.json over an existing record
Regenerates ==
    /\ gen.pc = "customer"
    /\ gen'.pc = "index"
    /\ Exists(PathOf(gen.customerDir, "customer.json"))

\* the follow-up fields of the contact block
FollowUp(contact) ==
    <<contact.contactedDate, contact.contactMethod, contact.notes>>

\* C25: when generateWebsite writes customer.json over an existing record,
\* the status, the outreach and billing blocks, the notes and the contact
\* follow-up fields stored before are retained, and the generated block is
\* the one of the new generation.
C25_TrackingRetained ==
    [][Regenerates =>
          /\ CustomerAfter.status = CustomerBefore.status
          /\ CustomerAfter.outreach = CustomerBefore.outreach
          /\ CustomerAfter.billing = CustomerBefore.billing
          /\ CustomerAfter.notes = CustomerBefore.notes
          /\ FollowUp(CustomerAfter.contact) = FollowUp(CustomerBefore.contact)
          /\ CustomerAfter.generated.date \in Dates
          /\ CustomerAfter.generated.hasLogo = gen.data.logoPath]_vars

\* what the merge does: every key of the new record replaces the stored
\* one, and only the keys the new record does not have are retained
C25_TrackingReset ==
    [][Regenerates =>
          /\ \E date \in Dates :
                \A k \in DOMAIN FreshCustomer(gen.data, gen.businessSlug, date) :
                   CustomerAfter[k]
                     = FreshCustomer(gen.data, gen.businessSlug, date)[k]
          /\ \A k \in DOMAIN CustomerBefore \ {"generated"} :
                k \notin DOMAIN FreshCustomer(gen.data, gen.businessSlug, 1) =>
                   CustomerAfter[k] = CustomerBefore[k]]_vars

\* a tracked site has been generated again
C25_Regenerated ==
    /\ gen.pc = "index"
    /\ Exists(PathOf(gen.customerDir, "customer.json"))
    /\ "statusUpdated" \in DOMAIN disk[PathOf(gen.customerDir, "customer.json")]
    /\ disk[PathOf(gen.customerDir, "customer.json")].status = "pending"

(***************************************************************************)
(* The development server (src/unnamed/part_001, lines 151-208).  Paths    *)
(* and request URLs are strings; the file system maps the paths of the     *)
(* files to their contents, and a directory is a path some file lies       *)
(* under.                                                                  *)
(***************************************************************************)
\* Most segments of a request URL.
MaxSegs == 3

\* /r/app
ROOT_DIR ==
    <<"/", "r", "/", "a", "p", "p">>

\* /site/
SitePrefix ==
    <<"/", "s", "i", "t", "e", "/">>

\* index.html
TxtIndexHtml ==
    <<"i", "n", "d", "e", "x", ".", "h", "t", "m", "l">>

\* sites.html
TxtSitesHtml ==
    <<"s", "i", "t", "e", "s", ".", "h", "t", "m", "l">>

\* websites
TxtWebsites ==
    <<"w", "e", "b", "s", "i", "t", "e", "s">>

\* sites
TxtSites ==
    <<"s", "i", "t", "e", "s">>

\* /sites
UrlSites ==
    <<"/", "s", "i", "t", "e", "s">>

RECURSIVE NormFrom(_, _, _)
\* the segments of a path with empty and . segments dropped and each ..
\* taking back the segment before it (none at the root)
NormFrom(parts, i, acc) ==
    IF i > Len(parts) THEN acc
    ELSE NormFrom(parts, i + 1,
            IF parts[i] = <<>> \/ parts[i] = <<".">> THEN acc
            ELSE IF parts[i] = <<".", ".">>
                 THEN (IF acc = <<>> THEN acc ELSE SubSeq(acc, 1, Len(acc) - 1))
                 ELSE Append(acc, parts[i]))

\* the text of an absolute path of the given segments
PathText(segs, trailing) ==
    IF segs = <<>> THEN <<"/">>
    ELSE <<"/">> \o JoinWith(segs, <<"/">>)
           \o (IF trailing THEN <<"/">> ELSE <<>>)

\* path.normalize(p) for an absolute POSIX path: a trailing separator is kept
normalize(p) ==
    PathText(NormFrom(Split(p, "/"), 1, <<>>), p[Len(p)] = "/")

\* path.join(dir, rel)
join(dir, rel) == normalize(dir \o <<"/">> \o rel)

\* slugMatch[1] of /^\/site\/([^\/]+)(\/.*)?$/ for a URL that starts with
\* /site/: the characters up to the next separator (no match when empty)
SlugOf(url) ==
    IF IndexFrom(url, <<"/">>, Len(SitePrefix) + 1) = 0
    THEN Sub(url, Len(SitePrefix) + 1, Len(url) + 1)
    ELSE Sub(url, Len(SitePrefix) + 1, IndexFrom(url, <<"/">>, Len(SitePrefix) + 1))

\* slugMatch[2] || '/index.html', with the lone separator replaced too
\* (lines 157-163)
RestOf(url) ==
    IF Len(url) - Len(SitePrefix) - Len(SlugOf(url)) <= 1
    THEN <<"/">> \o TxtIndexHtml
    ELSE Sub(url, Len(SitePrefix) + Len(SlugOf(url)) + 1, Len(url) + 1)

\* lines 152-175: the file path of a request, normalized
FilePathOf(url) ==
    normalize(
        IF url = UrlSites \/ url = UrlSites \o <<"/">>
        THEN join(ROOT_DIR, TxtSitesHtml)
        ELSE IF IsAt(url, 1, SitePrefix) /\ SlugOf(url) # <<>>
        THEN join(ROOT_DIR,
                  TxtWebsites \o <<"/">> \o TxtSites \o <<"/">> \o SlugOf(url)
                    \o <<"/">> \o Tail(RestOf(url)))
        ELSE join(ROOT_DIR, IF url = <<"/">> THEN TxtIndexHtml ELSE url))

\* the security check of line 178
Forbidden(filePath) == ~IsAt(filePath, 1, ROOT_DIR)

\* fs.stat: the path names a file, or a directory
IsFile(dk, p) == p \in DOMAIN dk

WithoutSlash(p) ==
    IF Len(p) > 1 /\ p[Len(p)] = "/" THEN SubSeq(p, 1, Len(p) - 1) ELSE p

IsDirectory(dk, p) ==
    \E q \in DOMAIN dk : IsAt(q, 1, WithoutSlash(p) \o <<"/">>)

\* lines 184-208: the file served for a path that passed the check (none
\* for a 404)
ServedFor(dk, filePath) ==
    IF IsFile(dk, filePath) THEN filePath
    ELSE IF IsDirectory(dk, filePath) /\ IsFile(dk, join(filePath, TxtIndexHtml))
         THEN join(filePath, TxtIndexHtml)
         ELSE <<>>

\* the response to a request
Respond(dk, url, filePath) ==
    [pc |-> "responded", url |-> url, filePath |-> filePath,
     status |-> IF Forbidden(filePath) THEN 403
                ELSE IF ServedFor(dk, filePath) = <<>> THEN 404 ELSE 200,
     served |-> IF Forbidden(filePath) THEN <<>> ELSE ServedFor(dk, filePath)]

\* the segments of the request URLs
UrlSegs == {<<".", ".">>, <<"s", "i", "t", "e">>, TxtSites, <<"a">>,
            <<"a", "p", "p", "2">>, <<"f">>}

\* / and /sites/, and every URL of one to MaxSegs segments
Urls ==
    {<<"/">>, UrlSites \o <<"/">>}
      \cup {PathText(segs, FALSE) :
               segs \in UNION {[1..n -> UrlSegs] : n \in 1..MaxSegs}}

\* the files: the homepage, the portfolio page, a site and a file in
\* ROOT_DIR; a file in the sibling directory /r/app2, one in /r and one in /
ServerFiles ==
    {join(ROOT_DIR, TxtIndexHtml), join(ROOT_DIR, TxtSitesHtml),
     join(ROOT_DIR, <<"f">>),
     join(ROOT_DIR, TxtWebsites \o <<"/">> \o TxtSites \o <<"/", "a", "/">>
                      \o TxtIndexHtml),
     <<"/", "r", "/", "a", "p", "p", "2", "/", "f">>,
     <<"/", "r", "/", "f">>, <<"/", "f">>}

ServerInit ==
    /\ template = <<>>
    /\ data = Undef
    /\ result = <<>>
    /\ pc = "done"
    /\ loopCount = 0
    /\ ifCount = 0
    /\ calls = 0
    /\ disk = [p \in ServerFiles |-> p]
    /\ gen = GenIdle

\* the request handler: one request, one response
HandleRequest ==
    /\ \E url \in Urls : gen' = Respond(disk, url, FilePathOf(url))
    /\ UNCHANGED <<disk, renderVars>>

ServerNext == HandleRequest

ServerSpec == ServerInit /\ [][ServerNext]_vars

\* the path lies in the directory tree of ROOT_DIR
InsideRoot(p) == p = ROOT_DIR \/ IsAt(p, 1, ROOT_DIR \o <<"/">>)

\* C26: the server answers 403 unless the normalized file path lies inside
\* the ROOT_DIR tree, so no file outside it is served, whatever .. segments
\* the URL has and also for a sibling directory whose name begins with
\* ROOT_DIR's name.
C26_OnlyInsideRoot ==
    gen.pc = "responded" =>
       /\ gen.status # 403 => InsideRoot(gen.filePath)
       /\ gen.status = 200 => InsideRoot(gen.served)

\* the part of C26 about paths that do not begin with the text of ROOT_DIR
C26_OtherPathsForbidden ==
    gen.pc = "responded" =>
       /\ ~IsAt(gen.filePath, 1, ROOT_DIR) => gen.status = 403
       /\ gen.status = 200 => IsAt(gen.served, 1, ROOT_DIR)

\* a URL with .. segments that leaves ROOT_DIR for /r was answered 403
C26_DotDotForbidden ==
    /\ gen.pc = "responded"
    /\ gen.url = <<"/", ".", ".", "/", "f">>
    /\ gen.filePath = <<"/", "r", "/", "f">>
    /\ gen.status = 403

\* a file inside ROOT_DIR was served through the site route
C26_SiteServed ==
    /\ gen.pc = "responded"
    /\ gen.url = <<"/", "s", "i", "t", "e", "/", "a">>
    /\ gen.status = 200


(***************************************************************************)
(* The pipeline: the per-business loop of runAutomatedPipeline             *)
(* (pipeline.js, lines 138-231) over the businesses findLocalBusinesses    *)
(* returned.  One step is one iteration, the calls of the scraper and of   *)
(* generateWebsite included.                                               *)
(***************************************************************************)
\* Most businesses found in a run.
MaxFound == 2

\* Joe's Pizza!
TxtJoesPizza ==
    <<"J", "o", "e", "'", "s", " ", "P", "i", "z", "z", "a", "!">>

\* business.name.toLowerCase().replace(/[^a-z0-9]+/g, '-').substring(0, 50)
PipelineSlug(name) == Truncate(DashRuns(toLowerCase(name), 1))

\* the businesses a search can return: with and without a website
FoundBusinesses ==
    {[name |-> n, website |-> w, phone |-> <<"1">>, logo |-> FALSE] :
        n \in {TxtAcePlumbing, TxtJoesPizza}, w \in BOOLEAN}

FoundLists == UNION {[1..n -> FoundBusinesses] : n \in 0..MaxFound}

\* createBusinessDataFromPlaces (lines 22-66) with the slug of line 184
PlacesData(business, slug) ==
    [businessName |-> business.name, businessSlug |-> slug,
     phone |-> business.phone, logoPath |-> FALSE]

\* fs.pathExists of a directory: some file lies in it
DirExists(dk, dir) == \E p \in DOMAIN dk : p.dir = dir

\* lines 162-191: the data of the business is scraped and saved by the
\* scraper under its own slug (a failed scrape throws), or built from the
\* search result and saved under the slug of the pipeline
DataSaved(dk, business, slug, scrapeOk) ==
    IF business.website
    THEN IF scrapeOk
         THEN [threw |-> FALSE,
               disk |-> Write(dk, DataPath(ExtractedData(business).businessSlug),
                              ExtractedData(business))]
         ELSE [threw |-> TRUE, disk |-> dk]
    ELSE [threw |-> FALSE,
          disk |-> Write(dk, DataPath(slug), PlacesData(business, slug))]

\* the stages of generateWebsite(dataFile) for the data d it loaded: the
\* rendered files, the logo, the data copy, the customer record, the page
RenderedStage(dks, d, slug) ==
    {IF r[HtmlTemplate].threw \/ r[CssTemplate].threw
     THEN [threw |-> TRUE, disk |-> dk]
     ELSE [threw |-> FALSE,
           disk |-> WriteSite(dk, SiteDir(slug), r[HtmlTemplate].s,
                              r[CssTemplate].s, JsTemplate)] :
        dk \in dks,
        r \in {[t \in {HtmlTemplate, CssTemplate} |-> renderTemplate(t, td)] :
                 td \in {TemplateData(d, slug)}}}

RecordStage(outs, d, slug, date) ==
    {IF o.threw THEN o
     ELSE [threw |-> FALSE,
           disk |-> Write(Write(o.disk,
                                PathOf(SiteDir(slug), "data/scraped-data.json"), d),
                          PathOf(SiteDir(slug), "customer.json"),
                          CustomerToWrite(o.disk,
                              PathOf(SiteDir(slug), "customer.json"),
                              FreshCustomer(d, slug, date)))] :
        o \in outs}

PageStage(outs) ==
    {IF o.threw THEN o
     ELSE [threw |-> FALSE,
           disk |-> Write(o.disk, PathOf(RepoDir, "sites.html"),
                          SiteEntries(o.disk))] :
        o \in outs}

\* the slug generateWebsite works under (part_000, line 39)
SlugOfData(d, dataFile) ==
    IF d.businessSlug # <<>> THEN d.businessSlug ELSE dataFile

\* generateWebsite for the data d it loaded
GenerateFrom(dk, d, slug, date) ==
    PageStage(RecordStage(RenderedStage({dk}, d, slug), d, slug, date))

\* generateWebsite(dataFile): it throws when the data file is missing
GenerateOutcomes(dk, dataFile, date) ==
    IF DataPath(dataFile) \notin DOMAIN dk
    THEN {[threw |-> TRUE, disk |-> dk]}
    ELSE UNION {GenerateFrom(dk, d, SlugOfData(d, dataFile), date) :
                   d \in {dk[DataPath(dataFile)]}}

\* results.push({business, status})
Pushed(g, business, status) ==
    [g EXCEPT !.i = g.i + 1,
              !.results = Append(g.results,
                                 [business |-> business.name, status |-> status])]

\* the runs: the businesses found, the two options, and a site of an
\* earlier run or none
PipelineInit ==
    /\ template = <<>>
    /\ data = Undef
    /\ result = <<>>
    /\ pc = "done"
    /\ loopCount = 0
    /\ ifCount = 0
    /\ calls = 0
    /\ \E earlier \in BOOLEAN :
          disk = IF earlier
                 THEN Write(NoFiles, PathOf(SiteDir(PipelineSlug(TxtAcePlumbing)),
                                            "index.html"), <<>>)
                 ELSE NoFiles
    /\ \E businesses \in FoundLists, skipExisting \in BOOLEAN,
          autoGenerate \in BOOLEAN :
          gen = [pc |-> "loop", businesses |-> businesses, i |-> 0,
                 results |-> <<>>, skipExisting |-> skipExisting,
                 autoGenerate |-> autoGenerate]

\* an iteration in which an exception ends the run
ProcessBusinessAborting ==
    /\ gen.pc = "loop"
    /\ gen.i < Len(gen.businesses)
    /\ \E business \in {gen.businesses[gen.i + 1]}, scrapeOk \in BOOLEAN :
          \E saved \in {DataSaved(disk, business, PipelineSlug(business.name),
                                  scrapeOk)} :
             /\ disk' = saved.disk
             /\ gen' = IF saved.threw THEN [gen EXCEPT !.pc = "threw"]
                       ELSE Pushed(gen, business, "success")
    /\ UNCHANGED renderVars

\* one iteration of the loop of lines 141-225
ProcessBusiness ==
    /\ gen.pc = "loop"
    /\ gen.i < Len(gen.businesses)
    /\ \E business \in {gen.businesses[gen.i + 1]} :
        \E slug \in {PipelineSlug(business.name)} :
          IF gen.skipExisting /\ DirExists(disk, SiteDir(slug))
          THEN /\ gen' = Pushed(gen, business, "skipped")
               /\ disk' = disk
          ELSE \E scrapeOk \in BOOLEAN, date \in Dates :
                 \E saved \in {DataSaved(disk, business, slug, scrapeOk)} :
                    IF saved.threw
                    THEN /\ gen' = Pushed(gen, business, "error")
                         /\ disk' = saved.disk
                    ELSE IF ~gen.autoGenerate
                    THEN /\ gen' = Pushed(gen, business, "success")
                         /\ disk' = saved.disk
                    ELSE \E g \in GenerateOutcomes(saved.disk, slug, date) :
                            /\ gen' = Pushed(gen, business,
                                             IF g.threw THEN "error" ELSE "success")
                            /\ disk' = g.disk
    /\ UNCHANGED renderVars

\* the results file of lines 259-263
ResultsPath == [dir |-> [root |-> "scraped", name |-> <<>>], file |-> "results"]

\* lines 126-129 and 228-265: the run returns its results
PipelineReturn ==
    /\ gen.pc = "loop"
    /\ gen.i = Len(gen.businesses)
    /\ gen' = [gen EXCEPT !.pc = "done"]
    /\ disk' = IF gen.businesses = <<>> THEN disk
               ELSE Write(disk, ResultsPath, gen.results)
    /\ UNCHANGED renderVars

PipelineNext ==
    \/ ProcessBusiness
    \/ PipelineReturn

PipelineSpec == PipelineInit /\ [][PipelineNext]_vars

\* the results so far are those of the first businesses, in order
ResultsInOrder ==
    /\ Len(gen.results) = gen.i
    /\ gen.i <= Len(gen.businesses)
    /\ \A k \in DOMAIN gen.results :
          /\ gen.results[k].business = gen.businesses[k].name
          /\ gen.results[k].status \in {"success", "skipped", "error"}

\* the site directory of the business an iteration is about
NextSiteDir == SiteDir(PipelineSlug(gen.businesses[gen.i + 1].name))

\* C27: the run records one result for each business found, in the order
\* found, with status success, skipped or error; the run never ends on an
\* exception and returns only when every business has its result; an
\* iteration is recorded as skipped exactly when skipExisting is set and the
\* site directory exists, and then it writes nothing.
C27_OneResultEach ==
    /\ [](/\ ResultsInOrder
          /\ gen.pc \in {"loop", "done"}
          /\ gen.pc = "done" => Len(gen.results) = Len(gen.businesses))
    /\ [][gen'.i = gen.i + 1 =>
            /\ gen'.results[gen'.i].status = "skipped"
                 <=> (gen.skipExisting /\ DirExists(disk, NextSiteDir))
            /\ gen'.results[gen'.i].status = "skipped" => disk' = disk]_vars

\* C27 witness: the first business ended in an error and the second was
\* processed all the same
C27_Witness ==
    /\ gen.pc = "done"
    /\ Len(gen.results) = 2
    /\ gen.results[1].status = "error"
    /\ gen.results[2].status = "success"

\* a business whose site exists was skipped; a generation that found no
\* data file became an error
C27_SkippedWitness ==
    /\ gen.pc = "done"
    /\ Len(gen.results) = 2
    /\ gen.results[1].status = "success"
    /\ gen.results[2].status = "skipped"

C27_GenerateErrorWitness ==
    /\ gen.pc = "done"
    /\ gen.businesses # <<>>
    /\ gen.businesses[1].name = TxtJoesPizza
    /\ gen.businesses[1].website
    /\ gen.results[1].status = "error"
    /\ Exists(DataPath(generateSlug(TxtJoesPizza)))


(***************************************************************************)
(* The business search: findLocalBusinesses (google-places.js, lines       *)
(* 17-174) with searchBusinessesByText (lines 211-268).  The answer of the *)
(* places service is an input: a failure, or a list of up to ApiLimit      *)
(* places, whatever count the request asked for.  A location is the list   *)
(* of its comma-separated parts, each a number, a word or empty.           *)
(***************************************************************************)
\* Largest maxResults a caller asks for.
MaxAsked == 22

\* the most places the service returns for one request
ApiLimit == 20

\* "40.1,-88.2", "Urbana", "Urbana, IL", "1, 2, 3" and ","
Locations ==
    {<<"num", "num">>, <<"word">>, <<"word", "word">>,
     <<"num", "num", "num">>, <<"empty", "empty">>}

\* isNaN(part) after the trim of line 45
IsNaN(part) == part = "word"

\* lines 40-56: text search unless the location is two numbers
UseTextSearch(location) ==
    IF Len(location) > 1
    THEN ~(Len(location) = 2 /\ ~IsNaN(location[1]) /\ ~IsNaN(location[2]))
    ELSE TRUE

\* the places of an answer of n places
Places(n) == [i \in 1..n |-> i]

\* searchBusinessesByText: every place of the answer becomes a business
\* (lines 250-264)
searchBusinessesByText(places) == places

RECURSIVE PushPlaces(_, _, _, _)
\* the for loop of lines 107-147: a business is pushed for each place until
\* totalFound reaches maxResults
PushPlaces(places, i, businesses, maxResults) ==
    IF i > Len(places) THEN businesses
    ELSE IF Len(businesses) + 1 >= maxResults THEN Append(businesses, places[i])
    ELSE PushPlaces(places, i + 1, Append(businesses, places[i]), maxResults)

\* what a call returns when it does not throw: a failed request gives the
\* businesses collected so far, none
FoundBusinessesFor(location, maxResults, ok, places) ==
    IF ~ok THEN <<>>
    ELSE IF UseTextSearch(location) THEN searchBusinessesByText(places)
    ELSE PushPlaces(places, 1, <<>>, maxResults)

PlacesInit ==
    /\ template = <<>>
    /\ data = Undef
    /\ result = <<>>
    /\ pc = "done"
    /\ loopCount = 0
    /\ ifCount = 0
    /\ calls = 0
    /\ disk = NoFiles
    /\ gen = GenIdle

\* one call of findLocalBusinesses
FindLocalBusinesses ==
    /\ calls = 0
    /\ calls' = 1
    /\ \E apiKey \in BOOLEAN, location \in Locations, maxResults \in 1..MaxAsked,
          ok \in BOOLEAN, n \in 0..ApiLimit :
          gen' = IF ~apiKey THEN [pc |-> "threw"]
                 ELSE [pc |-> "returned", location |-> location,
                       maxResults |-> maxResults,
                       businesses |->
                           FoundBusinessesFor(location, maxResults, ok, Places(n))]
    /\ UNCHANGED <<template, data, result, pc, loopCount, ifCount, disk>>

PlacesNext == FindLocalBusinesses

PlacesSpec == PlacesInit /\ [][PlacesNext]_vars

\* C28: a call of findLocalBusinesses returns at most maxResults
\* businesses, for coordinates and for addresses alike.
C28_AtMostMaxResults ==
    gen.pc = "returned" => Len(gen.businesses) <= gen.maxResults

\* the part of C28 about coordinates
C28_NearbyCapped ==
    (gen.pc = "returned" /\ ~UseTextSearch(gen.location)) =>
        Len(gen.businesses) <= gen.maxResults

\* a search by coordinates was cut off at maxResults
C28_CutOff ==
    /\ gen.pc = "returned"
    /\ gen.location = <<"num", "num">>
    /\ gen.maxResults = 3
    /\ Len(gen.businesses) = 3

(***************************************************************************)
(* generateSlug applied to business names.                                 *)
(***************************************************************************)
\* Longest run of letters at the start of a generated name.
MaxNameRun == 52

\* Joe's Pizza
TxtJoesPizzaName ==
    <<"J", "o", "e", "'", "s", " ", "P", "i", "z", "z", "a">>

\* what follows the first run of a generated name
NameMiddles == {<<>>, <<" ">>, <<"'", "s", " ">>, <<"-", "-">>, <<"!">>, <<" ", "&", " ">>}

\* a run of the letter A, a middle, a run of the letter b; and Joe's Pizza
Names ==
    {Repeat(<<"A">>, n) \o mid \o Repeat(<<"b">>, m) :
        n \in 0..MaxNameRun, mid \in NameMiddles, m \in {0, 1, 3}}
      \cup {TxtJoesPizzaName}

SlugInit ==
    /\ template = <<>>
    /\ data = Undef
    /\ result = <<>>
    /\ pc = "done"
    /\ loopCount = 0
    /\ ifCount = 0
    /\ calls = 0
    /\ disk = NoFiles
    /\ \E name \in Names : gen = [pc |-> "called", name |-> name]

\* the call returns the slug of the name
GenerateSlug ==
    /\ gen.pc = "called"
    /\ gen' = [pc |-> "returned", name |-> gen.name,
               slug |-> generateSlug(gen.name)]
    /\ UNCHANGED <<disk, renderVars>>

SlugNext == GenerateSlug

SlugSpec == SlugInit /\ [][SlugNext]_vars

\* at most 50 characters, all lower-case letters, digits or hyphens, no two
\* hyphens in a row
SlugChars(slug) ==
    /\ Len(slug) <= SlugLimit
    /\ \A i \in DOMAIN slug : slug[i] \in SlugCh \cup {"-"}
    /\ ~Includes(slug, <<"-", "-">>)

\* no hyphen at either end
NoEdgeHyphen(slug) ==
    slug = <<>> \/ (slug[1] # "-" /\ slug[Len(slug)] # "-")

\* C29: the slug of every name has at most 50 characters, all lower-case
\* letters, digits or single hyphens, and neither begins nor ends with a
\* hyphen, also for a name of more than 50 characters; Joe's Pizza gives
\* joe-s-pizza.
C29_SlugShape ==
    gen.pc = "returned" =>
       /\ SlugChars(gen.slug)
       /\ NoEdgeHyphen(gen.slug)
       /\ gen.name = TxtJoesPizzaName =>
             gen.slug = <<"j", "o", "e", "-", "s", "-", "p", "i", "z", "z", "a">>

\* the part of C29 that holds for every name, and the rest for the names
\* the slug of which is not cut
C29_UncutSlugs ==
    gen.pc = "returned" =>
       /\ SlugChars(gen.slug)
       /\ gen.slug = <<>> \/ gen.slug[1] # "-"
       /\ Len(TrimDashes(DashRuns(toLowerCase(gen.name), 1))) <= SlugLimit =>
             NoEdgeHyphen(gen.slug)
       /\ gen.name = TxtJoesPizzaName =>
             gen.slug = <<"j", "o", "e", "-", "s", "-", "p", "i", "z", "z", "a">>

\* a name of more than 50 characters got a slug of 50
C29_LongName ==
    /\ gen.pc = "returned"
    /\ Len(gen.name) > SlugLimit
    /\ Len(gen.slug) = SlugLimit
    /\ NoEdgeHyphen(gen.slug)


\* the document without the root key
DropKey(doc, key) == Obj(SelectSeq(doc.v, LAMBDA e : e.k # key))

\* C30: {{#each k}}{{this.n}};{{/each}} references k and the field n only,
\* so whatever text the field holds, the output does not hold the value of
\* the root key s and is the output for the document without s.
C30_NoInjection ==
    (Returned /\ template = TplInject) =>
       /\ ~Includes(result, TxtSecret)
       /\ \E other \in {DropKey(data, <<"s">>)} :
             Ok(result) = renderTemplate(template, other)

\* the part of C30 about texts without placeholder syntax
C30_PlainTexts ==
    (Returned /\ template = TplInject
       /\ ~Includes(RootValue(<<"k">>).v[1].v[1].v.v, LOpen)) =>
       /\ ~Includes(result, TxtSecret)
       /\ \E other \in {DropKey(data, <<"s">>)} :
             Ok(result) = renderTemplate(template, other)

\* the field text {{s}} came out as the value of s
C30_SecretRendered ==
    /\ Returned
    /\ template = TplInject
    /\ RootValue(<<"k">>).v[1].v[1].v.v = TxtPlaceholderS
    /\ result = TxtSecret \o <<";">>

=============================================================================
